---- MODULE Spec2Model ----
(***************************************************************************)
(* Model of the multi-strategy field-extraction engine of the job scraper  *)
(* (src/new_glassdoor.py, with the sibling extractors of                   *)
(* src/new_simplyhired.py and src/run_glassdoor_scraper.py).               *)
(*                                                                         *)
(* Representation of Python values                                         *)
(*   A Python str is a sequence of lexemes.  A lexeme is a maximal run of  *)
(*   letters (a word), a maximal run of digits (a number) or one other     *)
(*   character; every character-class test of the code (\s, \d, \w, a      *)
(*   bracket class, str.strip) is uniform over a lexeme, so the code's     *)
(*   per-character operations are computed per lexeme.                     *)
(*   A Python object is a tagged record: PyNone, PyStr(s), PyList(l),      *)
(*   PyInt(n), PyDict(d).                                                  *)
(***************************************************************************)
EXTENDS Integers, Sequences, FiniteSets, TLC

(***************************************************************************)
(* Bounds of the model.                                                    *)
(***************************************************************************)
MaxJobs == 2

(***************************************************************************)
(* Python values.                                                          *)
(***************************************************************************)
PyNone == [t |-> "none"]
PyStr(s) == [t |-> "str", s |-> s]
PyList(l) == [t |-> "list", l |-> l]
PyInt(n) == [t |-> "int", n |-> n]
PyDict(d) == [t |-> "dict", d |-> d]

\* bool(v) of a Python object
Truthy(v) ==
  CASE v.t = "none" -> FALSE
    [] v.t = "str" -> v.s # <<>>
    [] v.t = "list" -> v.l # <<>>
    [] v.t = "int" -> v.n # 0
    [] v.t = "dict" -> DOMAIN v.d # {}
    [] OTHER -> TRUE

\* Python's  a or b
PyOr(a, b) == IF Truthy(a) THEN a ELSE b

(***************************************************************************)
(* Lexemes and their character classes.                                    *)
(***************************************************************************)
NL == "\n"
Spaces == {" ", NL}
Nums == {"5", "50", "000"}
CurrencySyms == {"₹", "$", "€", "£"}
Puncts == {":", "-", ".", ",", "/", "(", ")", ";", "+", "*", "'", "{", "}"}

IsSpace(x) == x \in Spaces
IsNum(x) == x \in Nums
IsWord(x) == x \notin (Spaces \cup Nums \cup CurrencySyms \cup Puncts)
\* the regex class \w
IsWordChar(x) == IsWord(x) \/ IsNum(x)

\* str.lower() on one lexeme
Lower(x) ==
  CASE x = "Job" -> "job"
    [] x = "Type" -> "type"
    [] x = "Full" -> "full"
    [] x = "Part" -> "part"
    [] x = "Pay" -> "pay"
    [] x = "Salary" -> "salary"
    [] x = "Work" -> "work"
    [] x = "Location" -> "location"
    [] x = "Benefits" -> "benefits"
    [] x = "Schedule" -> "schedule"
    [] x = "Education" -> "education"
    [] x = "Most" -> "most"
    [] x = "Other" -> "other"
    [] x = "Relevant" -> "relevant"
    [] x = "Skills" -> "skills"
    [] x = "Responsibilities" -> "responsibilities"
    [] x = "About" -> "about"
    [] x = "Contract" -> "contract"
    [] x = "See" -> "see"
    [] OTHER -> x

LowerStr(s) == [i \in 1..Len(s) |-> Lower(s[i])]

RECURSIVE LStrip(_)
LStrip(s) == IF s # <<>> /\ IsSpace(Head(s)) THEN LStrip(Tail(s)) ELSE s

RECURSIVE RStrip(_)
RStrip(s) ==
  IF s # <<>> /\ IsSpace(s[Len(s)]) THEN RStrip(SubSeq(s, 1, Len(s) - 1)) ELSE s

\* str.strip()
Strip(s) == RStrip(LStrip(s))

\* str.rstrip(':')
RECURSIVE RStripColon(_)
RStripColon(s) ==
  IF s # <<>> /\ s[Len(s)] = ":" THEN RStripColon(SubSeq(s, 1, Len(s) - 1)) ELSE s

\* str.split(',') followed by strip() of every piece, empty pieces dropped
RECURSIVE SplitComma(_, _)
SplitComma(s, cur) ==
  IF s = <<>>
  THEN IF Strip(cur) # <<>> THEN <<PyStr(Strip(cur))>> ELSE <<>>
  ELSE IF Head(s) = ","
       THEN (IF Strip(cur) # <<>> THEN <<PyStr(Strip(cur))>> ELSE <<>>)
            \o SplitComma(Tail(s), <<>>)
       ELSE SplitComma(Tail(s), Append(cur, Head(s)))

\* len(s): number of characters of a string
RECURSIVE StrLen(_)
StrLen(s) == IF s = <<>> THEN 0 ELSE Len(Head(s)) + StrLen(Tail(s))

\* sep.join(strs)
RECURSIVE Join(_, _)
Join(strs, sep) ==
  IF strs = <<>> THEN <<>>
  ELSE IF Len(strs) = 1 THEN Head(strs)
  ELSE Head(strs) \o sep \o Join(Tail(strs), sep)

(***************************************************************************)
(* Structured field extraction over an ordered locator list.  The outcome  *)
(* of one locator on a page is NoSuch (find_element raised                 *)
(* NoSuchElementException), Raises (any other exception) or an element     *)
(* with its text and the value of the requested attribute.                 *)
(***************************************************************************)
NoSuch == [k |-> "NoSuch"]
Raises == [k |-> "Raises"]
Found(text, attr) == [k |-> "Elem", text |-> text, attr |-> attr]

\* safe_extract_text without the strip() of the element text
RECURSIVE safe_extract_text_unstripped(_, _)
safe_extract_text_unstripped(outcomes, attribute) ==
  IF outcomes = <<>> THEN PyNone
  ELSE LET o == Head(outcomes)
           result == IF attribute THEN o.attr ELSE PyStr(o.text)
       IN IF o.k = "Elem" /\ Truthy(result)
          THEN result
          ELSE safe_extract_text_unstripped(Tail(outcomes), attribute)

\* FieldExtractor.safe_extract_text: TRUE for attribute means an attribute
\* name was passed
RECURSIVE safe_extract_text(_, _)
safe_extract_text(outcomes, attribute) ==
  IF outcomes = <<>> THEN PyNone
  ELSE LET o == Head(outcomes)
           result == IF attribute THEN o.attr ELSE PyStr(Strip(o.text))
       IN IF o.k = "Elem" /\ Truthy(result)
          THEN result
          ELSE safe_extract_text(Tail(outcomes), attribute)

\* The per-field selector loop of SimplyHiredScraper._extract_job_detail_fields:
\* the first element found decides the field; raised is TRUE when an
\* exception other than NoSuchElementException leaves the loop
RECURSIVE sh_field_loop(_, _)
sh_field_loop(outcomes, attribute) ==
  IF outcomes = <<>> THEN [raised |-> FALSE, v |-> PyNone]
  ELSE LET o == Head(outcomes)
       IN CASE o.k = "NoSuch" -> sh_field_loop(Tail(outcomes), attribute)
            [] o.k = "Raises" -> [raised |-> TRUE, v |-> PyNone]
            [] OTHER -> [raised |-> FALSE,
                         v |-> IF attribute THEN o.attr ELSE PyStr(Strip(o.text))]

(***************************************************************************)
(* Parsed documents.  A node is a text node or an element with children.   *)
(***************************************************************************)
TextNode(s) == [name |-> "#text", text |-> s, kids |-> <<>>]
Elem(name, kids) == [name |-> name, text |-> <<>>, kids |-> kids]

\* Tag.descendants: the nodes below a node in document order
RECURSIVE Descendants(_)
RECURSIVE DescendantsOfAll(_)
Descendants(n) == DescendantsOfAll(n.kids)
DescendantsOfAll(ks) ==
  IF ks = <<>> THEN <<>>
  ELSE <<Head(ks)>> \o Descendants(Head(ks)) \o DescendantsOfAll(Tail(ks))

\* the stripped, non-empty strings below a node (Tag._all_strings(strip=True))
RECURSIVE AllStrings(_)
RECURSIVE AllStringsOfAll(_)
AllStrings(n) ==
  IF n.name = "#text"
  THEN IF Strip(n.text) # <<>> THEN <<Strip(n.text)>> ELSE <<>>
  ELSE AllStringsOfAll(n.kids)
AllStringsOfAll(ks) ==
  IF ks = <<>> THEN <<>> ELSE AllStrings(Head(ks)) \o AllStringsOfAll(Tail(ks))

\* Tag.get_text(separator=sep, strip=True)
get_text(n, sep) == Join(AllStrings(n), sep)

(***************************************************************************)
(* The selector table (ScraperConfig.selectors) for the description        *)
(* container, and the one container a page may hold.                       *)
(***************************************************************************)
job_description_selectors ==
  << "div.JobDetails_jobDescription__uW_fK",
     ".JobDetails_jobDescription__6VeBn",
     "[data-test='jobDescriptionContent']" >>

NoContainer == [tag |-> "", cls |-> "", data_test |-> "", root |-> Elem("", <<>>)]
Container(tag, cls, data_test, kids) ==
  [tag |-> tag, cls |-> cls, data_test |-> data_test, root |-> Elem(tag, kids)]

\* whether a CSS selector selects the container c
SelectorMatches(sel, c) ==
  CASE sel = "div.JobDetails_jobDescription__uW_fK" ->
         c.tag = "div" /\ c.cls = "JobDetails_jobDescription__uW_fK"
    [] sel = ".JobDetails_jobDescription__6VeBn" ->
         c.cls = "JobDetails_jobDescription__6VeBn"
    [] sel = "[data-test='jobDescriptionContent']" ->
         c.data_test = "jobDescriptionContent"
    \* a bare identifier is a type selector: it selects elements by tag name
    [] OTHER -> c.tag # "" /\ c.tag = sel

\* selector.replace('div.', '').replace('div', '')
ReplaceDiv(sel) ==
  IF sel = "div.JobDetails_jobDescription__uW_fK"
  THEN "JobDetails_jobDescription__uW_fK"
  ELSE sel

(***************************************************************************)
(* Section segmenter.                                                      *)
(***************************************************************************)
\* FieldExtractor.section_map.get(section_text, section_text)
section_map_get(k) ==
  CASE k = <<"responsibilities">> -> <<"responsibilities">>
    [] k = <<"key", " ", "responsibilities">> -> <<"responsibilities">>
    [] k = <<"qualifications">> -> <<"qualifications">>
    [] k = <<"what", " ", "we", "'", "re", " ", "looking", " ", "for">> -> <<"requirements">>
    [] k = <<"what", " ", "we", " ", "are", " ", "looking", " ", "for">> -> <<"requirements">>
    [] k = <<"requirements">> -> <<"requirements">>
    [] k = <<"what", " ", "you", "'", "ll", " ", "gain">> -> <<"perks">>
    [] k = <<"what", " ", "you", " ", "will", " ", "gain">> -> <<"perks">>
    [] k = <<"benefits">> -> <<"benefits">>
    [] k = <<"schedule">> -> <<"schedule">>
    [] k = <<"job", " ", "type">> -> <<"jobType">>
    [] k = <<"type">> -> <<"jobType">>
    [] k = <<"contract", " ", "length">> -> <<"contractLength">>
    [] k = <<"pay">> -> <<"pay">>
    [] k = <<"stipend">> -> <<"pay">>
    [] k = <<"work", " ", "location">> -> <<"workLocation">>
    [] k = <<"location">> -> <<"workLocation">>
    [] k = <<"expected", " ", "start", " ", "date">> -> <<"expectedStartDate">>
    [] k = <<"education">> -> <<"education">>
    [] k = <<"most", " ", "relevant", " ", "skills">> -> <<"mostRelevantSkills">>
    [] k = <<"other", " ", "relevant", " ", "skills">> -> <<"otherRelevantSkills">>
    [] k = <<"time", " ", "type">> -> <<"timeType">>
    [] k = <<"job", " ", "family", " ", "group">> -> <<"jobFamilyGroup">>
    [] k = <<"job", " ", "family">> -> <<"jobFamily">>
    [] k = <<"what", " ", "experience", " ", "is", " ", "mandatory">> -> <<"mandatoryExperience">>
    [] k = <<"what", " ", "experience", " ", "is", " ", "beneficial", " ",
             "(", "but", " ", "optional", ")">> -> <<"beneficialExperience">>
    [] k = <<"what", " ", "we", " ", "offer">> -> <<"perks">>
    [] k = <<"application", " ", "questions">> -> <<"applicationQuestions">>
    [] k = <<"application", " ", "deadline">> -> <<"applicationDeadline">>
    [] OTHER -> k

\* the length under which every item of a section makes it a list
ListItemLimit == 200

\* _process_section_content taking an item of ListItemLimit characters for
\* a list item
process_section_content_Inclusive(content) ==
  IF Len(content) = 1 THEN PyStr(content[1])
  ELSE IF Len(content) > 1
       THEN IF \A i \in 1..Len(content) : StrLen(content[i]) <= ListItemLimit
            THEN PyList([i \in 1..Len(content) |-> PyStr(content[i])])
            ELSE PyStr(Join(content, <<" ">>))
       ELSE PyStr(<<>>)

\* FieldExtractor._process_section_content
process_section_content(content) ==
  IF Len(content) = 1 THEN PyStr(content[1])
  ELSE IF Len(content) > 1
       THEN IF \A i \in 1..Len(content) : StrLen(content[i]) < ListItemLimit
            THEN PyList([i \in 1..Len(content) |-> PyStr(content[i])])
            ELSE PyStr(Join(content, <<" ">>))
       ELSE PyStr(<<>>)

\* dict[k] = v
DictSet(d, k, v) == [x \in DOMAIN d \cup {k} |-> IF x = k THEN v ELSE d[x]]
\* dict.get(k)
DictGet(d, k) == IF k \in DOMAIN d THEN d[k] ELSE PyNone
EmptyDict == [x \in {} |-> PyNone]

HeaderTags == {"h1", "h2", "h3", "h4", "b", "strong"}
ContentTags == {"p", "li", "div"}

\* the condition of both commit points without its test of current_content
HasSectionToSave_Contentless(section, content) == Truthy(section)

\* the condition of both commit points with the result FALSE
HasSectionToSave_Never(section, content) == FALSE

\* if current_section and current_content  (lines 389 and 403)
HasSectionToSave(section, content) == Truthy(section) /\ content # <<>>

\* the condition of line 396 without its test of current_section
AcceptsContent_WithoutSection(element, section) == element.name \in ContentTags

\* element.name in ['p', 'li', 'div'] and current_section  (line 396)
AcceptsContent(element, section) == element.name \in ContentTags /\ Truthy(section)

\* "Save previous section" / "Save last section"
CommitSection(sections, current_section, current_content) ==
  IF HasSectionToSave(current_section, current_content)
  THEN DictSet(sections, current_section.s, process_section_content(current_content))
  ELSE sections

\* the loop over desc_div.descendants and the final commit
RECURSIVE SegmentLoop(_, _, _, _)
SegmentLoop(elements, sections, current_section, current_content) ==
  IF elements = <<>>
  THEN CommitSection(sections, current_section, current_content)
  ELSE LET element == Head(elements)
           rest == Tail(elements)
       IN IF element.name \in HeaderTags
          THEN LET section_text == RStripColon(LowerStr(get_text(element, <<>>)))
               IN SegmentLoop(rest,
                              CommitSection(sections, current_section, current_content),
                              PyStr(section_map_get(section_text)),
                              <<>>)
          ELSE IF AcceptsContent(element, current_section)
               THEN LET text == get_text(element, <<>>)
                    IN SegmentLoop(rest, sections, current_section,
                                   IF text # <<>> THEN Append(current_content, text)
                                   ELSE current_content)
               ELSE SegmentLoop(rest, sections, current_section, current_content)

\* the container the segmenter works on: soup.find("div", class_=...) and the
\* fallback selectors; has is FALSE when none is found
RECURSIVE SelectFallback(_, _)
SelectFallback(sels, c) ==
  IF sels = <<>> THEN FALSE
  ELSE SelectorMatches(ReplaceDiv(Head(sels)), c) \/ SelectFallback(Tail(sels), c)

SegmenterFindsContainer(c) ==
  \/ (c.tag = "div" /\ c.cls = "JobDetails_jobDescription__uW_fK")
  \/ SelectFallback(job_description_selectors, c)

\* FieldExtractor.extract_job_description_sections
extract_job_description_sections(c) ==
  IF ~SegmenterFindsContainer(c) THEN EmptyDict
  ELSE SegmentLoop(Descendants(c.root), EmptyDict, PyNone, <<>>)

(***************************************************************************)
(* Regex fallback.  re.search tries the start positions from left to       *)
(* right; each pattern below gives, for one start position i, whether the  *)
(* pattern matches there and its group 1 (greedy, with the backtracking    *)
(* the pattern allows).  All patterns are used with re.IGNORECASE.         *)
(***************************************************************************)
NoMatch == [ok |-> FALSE, g |-> <<>>]
Match(g) == [ok |-> TRUE, g |-> g]

At(s, i) == IF i >= 1 /\ i <= Len(s) THEN s[i] ELSE ""
\* first position from j on that does not hold whitespace (\s*)
SkipWs(s, j) ==
  CHOOSE k \in j..(Len(s) + 1) :
    /\ \A m \in j..(k - 1) : IsSpace(s[m])
    /\ (k = Len(s) + 1 \/ ~IsSpace(s[k]))
\* last position of the greedy run of lexemes of class P that starts at k
\* (k - 1 when the run is empty)
RunEnd(s, k, P(_)) ==
  CHOOSE e \in (k - 1)..Len(s) :
    /\ \A m \in k..e : P(s[m])
    /\ (e = Len(s) \/ ~P(s[e + 1]))
\* the regex assertion \b between positions i - 1 and i
WordBoundary(s, i) ==
  (i >= 2 /\ i <= Len(s) + 1 /\ IsWordChar(s[i - 1]))
    # (i >= 1 /\ i <= Len(s) /\ IsWordChar(s[i]))

\* \b(full[- ]?time|part[- ]?time|contract|internship|temporary)\b
JobTypeAt(s, i) ==
  LET w == Lower(At(s, i))
      three == /\ w \in {"full", "part"}
               /\ At(s, i + 1) \in {"-", " "}
               /\ Lower(At(s, i + 2)) = "time"
               /\ WordBoundary(s, i + 3)
      one == /\ w \in {"fulltime", "parttime", "contract", "internship", "temporary"}
             /\ WordBoundary(s, i + 1)
  IN IF ~WordBoundary(s, i) THEN NoMatch
     ELSE IF three THEN Match(SubSeq(s, i, i + 2))
     ELSE IF one THEN Match(SubSeq(s, i, i))
     ELSE NoMatch

IsNumberPart(x) == IsNum(x) \/ x \in {",", "."}

\* (?:Salary|Pay)[:\-]?\s*([₹$€£]?\s?[\d,\.]+(?:\s*(?:per|/)?\s*\w+)?)
PayAt(s, i) ==
  LET j0 == i + 1
      j1 == IF At(s, j0) \in {":", "-"} THEN j0 + 1 ELSE j0
      g == SkipWs(s, j1)
      c == IF At(s, g) \in CurrencySyms THEN g + 1 ELSE g
      n == IF c > g /\ IsSpace(At(s, c)) THEN c + 1 ELSE c
      ne == RunEnd(s, n, IsNumberPart)
      \* the optional suffix  \s*(?:per|/)?\s*\w+
      u == SkipWs(s, ne + 1)
      afterSlash == SkipWs(s, u + 1)
      slashEnd == RunEnd(s, afterSlash, IsWordChar)
      wordEnd == RunEnd(s, u, IsWordChar)
      afterPer == SkipWs(s, wordEnd + 1)
      perEnd == RunEnd(s, afterPer, IsWordChar)
      last == IF At(s, u) = "/" /\ slashEnd >= afterSlash THEN slashEnd
              ELSE IF wordEnd >= u
                   THEN IF Lower(At(s, u)) = "per" /\ wordEnd = u /\ perEnd >= afterPer
                        THEN perEnd
                        ELSE wordEnd
                   ELSE ne
  IN IF Lower(At(s, i)) \in {"salary", "pay"} /\ ne >= n
     THEN Match(SubSeq(s, g, last))
     ELSE NoMatch

IsLocationPart(x) == IsWord(x) \/ x \in {",", " ", "-", "/"}
IsNotNewline(x) == x # NL

\* the part shared by the patterns  KEYWORD[:\-]?\s*(CLASS+) : j0 is the
\* position after the keyword
LabelledAt(s, j0, P(_)) ==
  LET j1 == IF At(s, j0) \in {":", "-"} THEN j0 + 1 ELSE j0
      k == SkipWs(s, j1)
      e == RunEnd(s, k, P)
  IN IF e >= k THEN Match(SubSeq(s, k, e))
     \* \s* gives back a blank that the class accepts
     ELSE IF \E m \in j1..(k - 1) : s[m] = " " THEN Match(<<" ">>)
     \* [:\-]? gives back its character when the class accepts it
     ELSE IF j1 > j0 /\ P(s[j0]) THEN Match(<<s[j0]>>)
     ELSE NoMatch

\* Work location[:\-]?\s*([A-Za-z, \-/]+)
WorkLocationAt(s, i) ==
  IF Lower(At(s, i)) = "work" /\ At(s, i + 1) = " " /\ Lower(At(s, i + 2)) = "location"
  THEN LabelledAt(s, i + 3, IsLocationPart)
  ELSE NoMatch

\* Benefits[:\-]?\s*(.+)   Schedule[:\-]?\s*(.+)   Education[:\-]?\s*(.+)
KeywordLineAt(s, i, keyword) ==
  IF Lower(At(s, i)) = keyword THEN LabelledAt(s, i + 1, IsNotNewline) ELSE NoMatch

RegexFields == <<"jobType", "pay", "workLocation", "benefits", "schedule", "education">>

PatternAt(s, i, field) ==
  CASE field = "jobType" -> JobTypeAt(s, i)
    [] field = "pay" -> PayAt(s, i)
    [] field = "workLocation" -> WorkLocationAt(s, i)
    [] field = "benefits" -> KeywordLineAt(s, i, "benefits")
    [] field = "schedule" -> KeywordLineAt(s, i, "schedule")
    [] field = "education" -> KeywordLineAt(s, i, "education")
    [] OTHER -> NoMatch

\* FieldExtractor.extract_with_regex_fallback: re.search returns the match at
\* the leftmost start position, and the code strips its group 1
extract_with_regex_fallback(text, field) ==
  IF ~Truthy(text) THEN PyNone
  ELSE LET hits == {i \in 1..Len(text.s) : PatternAt(text.s, i, field).ok}
       IN IF hits = {} THEN PyNone
          ELSE CHOOSE v \in {PyStr(Strip(PatternAt(text.s, first, field).g)) :
                               first \in {i \in hits : \A m \in hits : i <= m}} : TRUE

(***************************************************************************)
(* Generative fallback.  The reply text of the model is a sequence of      *)
(* tokens: prose, an opening brace, a closing brace, the members of a JSON *)
(* object, or the text of a JSON value that is not an object.              *)
(***************************************************************************)
Prose == [k |-> "txt"]
LBrace == [k |-> "lb"]
RBrace == [k |-> "rb"]
Members(d) == [k |-> "members", d |-> d]
JsonValue(v) == [k |-> "value", v |-> v]

Ok(v) == [raised |-> FALSE, v |-> v]
Raised == [raised |-> TRUE, v |-> PyNone]

NotSpecified == PyStr(<<"Not", " ", "specified">>)
ScalarKeys == <<"jobType", "pay", "workLocation", "benefits", "schedule", "education">>
ListKeys == <<"mostRelevantSkills", "otherRelevantSkills">>
ScalarKeySet == {ScalarKeys[i] : i \in 1..Len(ScalarKeys)}
ListKeySet == {ListKeys[i] : i \in 1..Len(ListKeys)}
TargetKeys == ScalarKeySet \cup ListKeySet

\* LLMFieldExtractor._get_default_fields
get_default_fields ==
  [key \in TargetKeys |-> IF key \in ListKeySet THEN PyList(<<>>) ELSE NotSpecified]

\* json.loads of a token sequence; raised stands for json.JSONDecodeError
json_loads(toks) ==
  IF Len(toks) = 3 /\ toks[1].k = "lb" /\ toks[2].k = "members" /\ toks[3].k = "rb"
  THEN Ok(PyDict(toks[2].d))
  ELSE IF Len(toks) = 2 /\ toks[1].k = "lb" /\ toks[2].k = "rb"
  THEN Ok(PyDict(EmptyDict))
  ELSE IF Len(toks) = 1 /\ toks[1].k = "value"
  THEN Ok(toks[1].v)
  ELSE Raised

\* re.search(r'\{.*\}', content, re.DOTALL): from the first opening brace to
\* the last closing brace after it
BraceMatch(toks) ==
  LET opens == {i \in 1..Len(toks) : toks[i].k = "lb"}
      first == CHOOSE i \in opens : \A m \in opens : i <= m
      closes == {j \in 1..Len(toks) : toks[j].k = "rb" /\ j > first}
      last == CHOOSE j \in closes : \A m \in closes : j >= m
  IN IF opens = {} THEN NoMatch
     ELSE IF closes = {} THEN NoMatch
     ELSE Match(SubSeq(toks, first, last))

\* LLMFieldExtractor._parse_llm_response; content None makes json.loads raise
\* TypeError, which is not caught here
parse_llm_response(content) ==
  IF content.t = "none" THEN Raised
  ELSE LET direct == json_loads(content.s)
           m == BraceMatch(content.s)
           second == json_loads(m.g)
       IN IF ~direct.raised THEN direct
          ELSE IF m.ok /\ ~second.raised THEN second
          ELSE Ok(PyDict(EmptyDict))

\* [skill.strip() for skill in v if skill.strip()]
RECURSIVE StripNonEmpty(_)
StripNonEmpty(l) ==
  IF l = <<>> THEN <<>>
  ELSE (IF Strip(Head(l).s) # <<>> THEN <<PyStr(Strip(Head(l).s))>> ELSE <<>>)
       \o StripNonEmpty(Tail(l))

AllStr(l) == \A i \in 1..Len(l) : l[i].t = "str"

\* key in fields  (raises TypeError for a value that is not a container)
KeyIn(key, fields) ==
  CASE fields.t = "dict" -> Ok(key \in DOMAIN fields.d)
    [] fields.t = "list" -> Ok(\E i \in 1..Len(fields.l) : fields.l[i] = PyStr(<<key>>))
    [] fields.t = "str" -> Ok(\E i \in 1..Len(fields.s) : fields.s[i] = key)
    [] OTHER -> Raised

\* one turn of the loop of _normalize_llm_fields for key
NormalizeKey(normalized, fields, key) ==
  LET has == KeyIn(key, fields)
      v == fields.d[key]
  IN IF has.raised THEN Raised
     ELSE IF ~has.v THEN Ok(normalized)
     \* fields[key] on a list or a str raises TypeError
     ELSE IF fields.t # "dict" THEN Raised
     ELSE IF ~Truthy(v) THEN Ok(normalized)
     ELSE IF key \in ListKeySet
          THEN IF v.t = "list"
               THEN IF AllStr(v.l)
                    THEN Ok([normalized EXCEPT ![key] = PyList(StripNonEmpty(v.l))])
                    ELSE Raised
               ELSE IF v.t = "str" /\ v # NotSpecified
                    THEN Ok([normalized EXCEPT ![key] = PyList(SplitComma(v.s, <<>>))])
                    ELSE Ok(normalized)
          ELSE IF v # NotSpecified
               THEN Ok([normalized EXCEPT ![key] = v])
               ELSE Ok(normalized)

RECURSIVE NormalizeLoop(_, _, _)
NormalizeLoop(normalized, fields, keys) ==
  IF keys = <<>> THEN Ok(normalized)
  ELSE LET r == NormalizeKey(normalized, fields, Head(keys))
       IN IF r.raised THEN Raised ELSE NormalizeLoop(r.v, fields, Tail(keys))

\* LLMFieldExtractor._normalize_llm_fields
normalize_llm_fields(fields) ==
  NormalizeLoop(get_default_fields, fields, ScalarKeys \o ListKeys)

\* fields[k][0].lower().startswith("see above")
StartsWithSeeAbove(v) ==
  v.t = "str" /\ Len(v.s) >= 3 /\ SubSeq(LowerStr(v.s), 1, 3) = <<"see", " ", "above">>

\* normalize_llm_fields of extract_fields_with_llama, run_glassdoor_scraper.py
\* lines 616-629; on a value that is not an object the subscript store
\* raises TypeError
llama_normalize_llm_fields(fields) ==
  IF fields.t # "dict" THEN Raised
  ELSE Ok([k \in DOMAIN fields.d \cup TargetKeys |->
             IF k \in ScalarKeySet
             THEN IF k \notin DOMAIN fields.d \/ ~Truthy(fields.d[k])
                  THEN NotSpecified ELSE fields.d[k]
             ELSE IF k \in ListKeySet
             THEN IF k \notin DOMAIN fields.d \/ fields.d[k].t # "list"
                  THEN PyList(<<>>)
                  ELSE IF Len(fields.d[k].l) = 1 /\ StartsWithSeeAbove(fields.d[k].l[1])
                  THEN PyList(<<>>)
                  ELSE fields.d[k]
             ELSE fields.d[k]])

\* the body of the try block of extract_fields
CallModel(reply) ==
  IF reply.k = "raises" THEN Raised
  ELSE LET parsed == parse_llm_response(reply.content)
       IN IF parsed.raised THEN Raised ELSE normalize_llm_fields(parsed.v)

\* try: ... except Exception: return self._get_default_fields()
ExceptException(r) == IF r.raised THEN Ok(get_default_fields) ELSE r

\* LLMFieldExtractor.extract_fields: client is whether a client was built
extract_fields(client, job_desc_text, reply) ==
  IF ~client \/ ~Truthy(job_desc_text) THEN Ok(get_default_fields)
  ELSE ExceptException(CallModel(reply))

(***************************************************************************)
(* The record type JobPosting and its validators.                          *)
(***************************************************************************)
\* the characters that the class [^\d,.-₹$€£\s] of normalize_currency
\* removes: the range .-₹ keeps every character from '.' to the rupee sign
RemovedByCurrencyClass == {"-", "(", ")", "+", "*", "'"}
KeptByCurrencyClass(x) == x \notin RemovedByCurrencyClass

\* JobPosting.normalize_currency
normalize_currency(v) ==
  IF Truthy(v) THEN PyStr(Strip(SelectSeq(v.s, KeptByCurrencyClass))) ELSE v

\* JobPosting.ensure_list
ensure_list(v) ==
  IF v.t = "str" THEN PyList(SplitComma(v.s, <<>>))
  ELSE IF Truthy(v) THEN v ELSE PyList(<<>>)

\* the title validator without its test for an empty or blank title
title_accepts_blank(v) ==
  IF v.t = "str" THEN Ok(PyStr(Strip(v.s))) ELSE Raised

\* JobPosting.title_must_not_be_empty; raised stands for ValueError
title_must_not_be_empty(v) ==
  IF ~Truthy(v) \/ Strip(v.s) = <<>> THEN Raised ELSE Ok(PyStr(Strip(v.s)))

IsOptStr(v) == v.t \in {"none", "str"}
IsListOfStr(v) == v.t = "list" /\ AllStr(v.l)

\* JobPosting(**a): type validation of every field, then the validators;
\* raised stands for pydantic's ValidationError
JobPosting(a) ==
  LET title == title_must_not_be_empty(a.title)
      most == ensure_list(a.most_relevant_skills)
      other == ensure_list(a.other_relevant_skills)
      typed == /\ a.title.t = "str"
               /\ IsOptStr(a.company_name) /\ IsOptStr(a.location)
               /\ IsOptStr(a.salary) /\ IsOptStr(a.job_type) /\ IsOptStr(a.pay)
               /\ IsOptStr(a.work_location)
               /\ (IsOptStr(a.benefits) \/ IsListOfStr(a.benefits))
               /\ (IsOptStr(a.schedule) \/ IsListOfStr(a.schedule))
               /\ IsOptStr(a.education)
               /\ IsListOfStr(most) /\ IsListOfStr(other)
               /\ IsOptStr(a.company_logo) /\ IsOptStr(a.job_description)
               /\ IsOptStr(a.job_id)
  IN IF ~typed THEN Raised
     ELSE IF title.raised THEN Raised
     ELSE Ok([a EXCEPT !.t = "JobPosting",
                       !.title = title.v,
                       !.salary = normalize_currency(a.salary),
                       !.pay = normalize_currency(a.pay),
                       !.most_relevant_skills = most,
                       !.other_relevant_skills = other])

(***************************************************************************)
(* Inputs: pages, replies of the generative model, and job URLs.           *)
(***************************************************************************)
Absent(n) == [i \in 1..n |-> NoSuch]
Text(s) == Found(s, PyNone)
Attr(v) == Found(<<>>, v)

\* The structured part of a page: for each field of ScraperConfig.selectors
\* the outcome of each of its locators, in the order of the selector table
HeadFull ==
  [title |-> <<Text(<<" ", "Dev", " ">>), NoSuch, NoSuch, NoSuch, NoSuch>>,
   company |-> <<NoSuch, Text(<<"Acme">>), NoSuch, NoSuch, NoSuch>>,
   location |-> <<Text(<<"Pune", " ">>), NoSuch, NoSuch>>,
   salary |-> <<Text(<<"₹", "5", "L", " ", "-", " ", "₹", "50", "L", " ",
                       "(", "Employer", " ", "est", ".", ")">>), NoSuch, NoSuch>>,
   easy_apply |-> <<Text(<<"Easy", " ", "Apply">>), NoSuch, NoSuch>>,
   company_logo |-> <<Attr(PyStr(<<"logo", ".", "png">>)), NoSuch, NoSuch>>,
   jl |-> PyStr(<<"5">>)]
HeadBare ==
  [title |-> Absent(5), company |-> Absent(5), location |-> Absent(3),
   salary |-> Absent(3), easy_apply |-> Absent(3), company_logo |-> Absent(3),
   jl |-> PyNone]
HeadLaterLocator ==
  [title |-> <<Text(<<" ">>), Raises, Text(<<"QA">>), NoSuch, Text(<<"Dev">>)>>,
   company |-> Absent(5), location |-> Absent(3),
   salary |-> <<NoSuch, Text(<<"₹", "50", ",", "000">>), NoSuch>>,
   easy_apply |-> Absent(3),
   company_logo |-> <<Attr(PyNone), Attr(PyStr(<<" ">>)), NoSuch>>,
   jl |-> PyNone]
HeadNoTitle ==
  [title |-> <<Text(<<>>), NoSuch, NoSuch, NoSuch, Text(<<" ", " ">>)>>,
   company |-> <<Text(<<"Acme">>), NoSuch, NoSuch, NoSuch, NoSuch>>,
   location |-> Absent(3), salary |-> Absent(3), easy_apply |-> Absent(3),
   company_logo |-> Absent(3),
   jl |-> PyStr(<<"5">>)]
Heads == {HeadFull, HeadBare, HeadLaterLocator, HeadNoTitle}

Primary(kids) == Container("div", "JobDetails_jobDescription__uW_fK", "", kids)
AltClass(kids) == Container("div", "JobDetails_jobDescription__6VeBn", "", kids)
DataTest(kids) == Container("section", "", "jobDescriptionContent", kids)
B(s) == Elem("b", <<TextNode(s)>>)
H3(s) == Elem("h3", <<TextNode(s)>>)
P(s) == Elem("p", <<TextNode(s)>>)
UL(items) == Elem("ul", [i \in 1..Len(items) |-> Elem("li", <<TextNode(items[i])>>)])

FullTime == <<"Full", "-", "time">>
PartTime == <<"Part", "-", "time">>
Rupees50k == <<"₹", "50", ",", "000", " ", "per", " ", "month">>

\* <p>Job Type: Full-time. Some other text.</p>
DescLabelled ==
  Primary(<<P(<<"Job", " ", "Type", ":", " ">> \o FullTime
              \o <<".", " ", "Some", " ", "other", " ", "text", ".">>)>>)
\* two sections under bold headers
DescSections ==
  Primary(<<B(<<"Job", " ", "Type", ":">>), P(PartTime),
            B(<<"Pay", ":">>), P(Rupees50k)>>)
EightTail ==
  <<B(<<"Pay", ":">>), P(Rupees50k),
    B(<<"Work", " ", "Location", ":">>), P(<<"Remote">>),
    B(<<"Benefits", ":">>), UL(<< <<"Health">>, <<"PF">> >>),
    B(<<"Education", ":">>), P(<<"Bachelor">>),
    H3(<<"Most", " ", "Relevant", " ", "Skills">>), UL(<< <<"Python">>, <<"SQL">> >>),
    H3(<<"Other", " ", "Relevant", " ", "Skills">>), P(<<"Git">>)>>
\* every one of the eight target fields has its own section
DescAllEight ==
  Primary(<<B(<<"Job", " ", "Type", ":">>), P(PartTime),
            B(<<"Schedule", ":">>), P(<<"Day", " ", "shift">>)>> \o EightTail)
\* seven sections, and a job type that only the regex pattern finds
DescSevenAndRegex ==
  Primary(<<B(<<"Schedule", ":">>), P(FullTime)>> \o EightTail)
\* the container carries the second class of the selector table
DescAltClass == AltClass(<<B(<<"Job", " ", "Type", ":">>), P(PartTime)>>)
\* the container is found by its data-test attribute only
DescDataTest == DataTest(<<B(<<"Education", ":">>), P(<<"Bachelor">>)>>)
\* values that the validators of JobPosting rewrite
DescNoisy ==
  Primary(<<B(<<"Pay", ":">>), P(<<"(", "₹", "50", ",", "000", ")", " ", "+", " ", "bonus">>),
            B(<<"Most", " ", "Relevant", " ", "Skills", ":">>),
            P(<<"Python", ",", " ", "SQL">>)>>)
\* a job type section with two list items
DescListJobType ==
  Primary(<<B(<<"Job", " ", "Type">>), UL(<<FullTime, <<"Contract">> >>)>>)
\* a container without text
DescEmpty == Primary(<<>>)
\* <h3>Responsibilities</h3><ul><li>A</li><li>B</li></ul>
\* <p>Pay: ₹50,000 per month</p>
DescRoundTrip ==
  Primary(<<H3(<<"Responsibilities">>), UL(<< <<"A">>, <<"B">> >>),
            P(<<"Pay", ":", " ">> \o Rupees50k)>>)
\* the same with the label of the paragraph in bold:
\* <p><b>Pay:</b> ₹50,000 per month</p>
DescRoundTripBold ==
  Primary(<<H3(<<"Responsibilities">>), UL(<< <<"A">>, <<"B">> >>),
            Elem("p", <<Elem("b", <<TextNode(<<"Pay", ":">>)>>),
                        TextNode(<<" ">> \o Rupees50k)>>)>>)
\* the same with the label as a header of its own:
\* <b>Pay:</b><p>₹50,000 per month</p>
DescRoundTripHeader ==
  Primary(<<H3(<<"Responsibilities">>), UL(<< <<"A">>, <<"B">> >>),
            B(<<"Pay", ":">>), P(Rupees50k)>>)
Descs == {NoContainer, DescLabelled, DescSections, DescAllEight, DescSevenAndRegex,
          DescAltClass, DescDataTest, DescNoisy, DescListJobType, DescEmpty,
          DescRoundTrip, DescRoundTripBold, DescRoundTripHeader}

Dict1(k, v) == [x \in {k} |-> v]
FullReply ==
  [key \in TargetKeys |->
     CASE key = "jobType" -> PyStr(<<"Internship">>)
       [] key = "pay" -> PyStr(<<"$", "5">>)
       [] key = "workLocation" -> PyStr(<<"Hybrid">>)
       [] key = "benefits" -> PyStr(<<"Meals">>)
       [] key = "schedule" -> PyStr(<<"Night", " ", "shift">>)
       [] key = "education" -> PyStr(<<"Master">>)
       [] key = "mostRelevantSkills" -> PyList(<<PyStr(<<" ", "Java">>), PyStr(<<" ">>)>>)
       [] OTHER -> PyStr(<<"Go", ",", " ", "Rust">>)]
\* {"jobType": "Not specified", "mostRelevantSkills": ["Python", "SQL"]}
\* {"mostRelevantSkills": ["See above"], "otherRelevantSkills": "Go, Rust"}
PlaceholderReply ==
  [key \in {"mostRelevantSkills", "otherRelevantSkills"} |->
     IF key = "mostRelevantSkills" THEN PyList(<<PyStr(<<"See", " ", "above">>)>>)
     ELSE PyStr(<<"Go", ",", " ", "Rust">>)]
\* {"mostRelevantSkills": ["Go", " Go "]}
DuplicateSkillsReply ==
  Dict1("mostRelevantSkills", PyList(<<PyStr(<<"Go">>), PyStr(<<" ", "Go", " ">>)>>))
\* {"benefits": ["", "Health"]}
BenefitsListReply ==
  Dict1("benefits", PyList(<<PyStr(<<>>), PyStr(<<"Health">>)>>))
SentinelReply ==
  [key \in {"jobType", "mostRelevantSkills"} |->
     IF key = "jobType" THEN NotSpecified
     ELSE PyList(<<PyStr(<<"Python">>), PyStr(<<"SQL">>)>>)]

Content(toks) == [k |-> "content", content |-> PyStr(toks)]
Llm(client, reply) == [client |-> client, reply |-> reply]
ModelRaises == [k |-> "raises", content |-> PyNone]
Llms ==
  { Llm(FALSE, Content(<<LBrace, Members(FullReply), RBrace>>)),
    Llm(TRUE, ModelRaises),
    Llm(TRUE, [k |-> "content", content |-> PyNone]),
    Llm(TRUE, Content(<<Prose>>)),
    Llm(TRUE, Content(<<LBrace, Prose, RBrace>>)),
    Llm(TRUE, Content(<<Prose, LBrace, Members(FullReply), RBrace, Prose>>)),
    Llm(TRUE, Content(<<LBrace, Members(FullReply), RBrace>>)),
    Llm(TRUE, Content(<<LBrace, Members(SentinelReply), RBrace>>)),
    Llm(TRUE, Content(<<LBrace, Members(BenefitsListReply), RBrace>>)),
    Llm(TRUE, Content(<<LBrace, Members(DuplicateSkillsReply), RBrace>>)),
    Llm(TRUE, Content(<<JsonValue(PyList(<<PyInt(1), PyStr(<<"jobType">>)>>))>>)),
    Llm(TRUE, Content(<<JsonValue(PyInt(5))>>)),
    Llm(TRUE, Content(<<JsonValue(PyNone)>>)),
    Llm(TRUE, Content(<<LBrace, Members(Dict1("jobType", PyInt(5))), RBrace>>)),
    Llm(TRUE, Content(<<LBrace, Members(Dict1("mostRelevantSkills", PyList(<<PyInt(1)>>))),
                        RBrace>>)) }

\* what one job URL leads to: whether the driver is created and the page
\* loads, the page, and the behaviour of the generative model on its text
Url(load_ok, head, desc, llm) ==
  [load_ok |-> load_ok, head |-> head, desc |-> desc, llm |-> llm]
Urls ==
  {Url(TRUE, h, d, m) : h \in Heads, d \in Descs, m \in Llms}
    \cup {Url(FALSE, HeadFull, DescSections, Llm(TRUE, ModelRaises))}
\* the URLs of the batches of more than one job
BatchUrls ==
  {Url(TRUE, h, d, Llm(FALSE, ModelRaises)) :
     h \in {HeadFull, HeadLaterLocator, HeadNoTitle}, d \in {NoContainer, DescSections}}
    \cup {Url(TRUE, HeadFull, DescLabelled,
               Llm(TRUE, Content(<<LBrace, Members(FullReply), RBrace>>))),
          Url(FALSE, HeadFull, DescSections, Llm(TRUE, ModelRaises))}

RECURSIVE SeqsOfLen(_, _)
SeqsOfLen(S, n) ==
  IF n = 0 THEN {<<>>}
  ELSE {Append(q, x) : q \in SeqsOfLen(S, n - 1), x \in S}

(***************************************************************************)
(* GlassdoorScraper: one call of scrape_jobs on a list of job URLs; the    *)
(* documents are extracted by _extract_single_job, whose position is pc.   *)
(***************************************************************************)
VARIABLES
  job_urls,      \* the URLs collected for this call, as what each leads to
  idx,           \* the URL whose extraction is in progress
  pc,            \* position of _extract_single_job / scrape_jobs
  frame,         \* the local variables of _extract_single_job
  val,           \* per field, the value the regex fallback returned for it
  regex_tried,   \* the fields extract_with_regex_fallback was called for
  llm_called,    \* whether llm_extractor.extract_fields was called
  llm_raised,    \* whether that call raised
  llm_fields,    \* what it returned
  result,        \* the return value of _extract_single_job
  results,       \* the values gathered by _extract_jobs_async
  scraped_jobs,  \* the list returned by _extract_jobs_concurrent
  user_agent_cycle,  \* DriverManager.user_agent_cycle: the agent next() gives
  driver,        \* the local variable driver of _extract_single_job
  metrics,       \* the counters EXTRACTION_SUCCESS and ERRORS_TOTAL
  locators,      \* an ordered locator list, as the outcome of each locator
  attribute,     \* whether an attribute, not the text, is asked for
  lookup_pc,     \* position of the two structured extractors on that list
  gd_text,       \* the return value of FieldExtractor.safe_extract_text
  sh_detail,     \* the outcome of the selector loop of SimplyHiredScraper
  seg_doc,       \* the document given to extract_job_description_sections
  seg_pc,        \* position of extract_job_description_sections
  seg_elements,  \* desc_div.descendants: the nodes below the container, in order
  seg_i,         \* the position of its loop in desc_div.descendants
  sections,      \* its local variable sections
  current_section,  \* its local variable current_section
  current_content,  \* its local variable current_content
  seg_hist,      \* what the traversal did so far: headers seen, commits made
  batch_pc,      \* position of _extract_jobs_concurrent over its thread pool
  w_pc,          \* per task of the pool, the position of its _extract_single_job
  w_driver,      \* per task, its local variable driver
  w_outcome,     \* per task, what its _extract_single_job returned or raised
  unlocked,      \* the shared objects a task has written while holding no lock
  reply_content,       \* the reply text given to _parse_llm_response, as tokens
  parse_pc,      \* position of _parse_llm_response / _normalize_llm_fields
  match,         \* its local variable match
  parsed_fields,        \* what _parse_llm_response returned
  normalized_fields,    \* what _normalize_llm_fields returned
  llama_fields,         \* what normalize_llm_fields of run_glassdoor_scraper returned
  groq,  \* whether the groq package was imported (run_glassdoor_scraper.py)
  api_key,  \* whether GROQ_API_KEY is set
  llama_reply,  \* what the model call of extract_fields_with_llama does
  llama_pc,  \* position of extract_fields_with_llama in scrape_with_selenium
  llama_out,  \* what extract_fields_with_llama returned, or that it raised
  jobs, \* the list jobs of scrape_with_selenium, as the number of records
  func,  \* what each successive call of func does: it returns, or the exception it raises
  retries,  \* the argument retries of safe_execute_with_retry
  delay,  \* its local variable delay
  logger,  \* whether a logger was passed
  attempt,  \* its loop variable
  retry_pc,  \* position of safe_execute_with_retry
  retry_out,  \* what it returned, or that it raised
  retry_hist, \* the calls of func and the sleeps made so far
  num_jobs,  \* _collect_job_urls: the num_jobs argument
  page_links,  \* hrefs the job_links selectors find on the results page
  hidden,  \* hrefs the page reveals on later clicks
  button,  \* when a load_more control is displayed and clickable
  find_raises,  \* find_elements raises for every job_links selector
  url_set,  \* _collect_job_urls: the local set job_urls
  found,  \* _collect_job_urls: the local found
  clicked,  \* _collect_job_urls: the local clicked
  collect_pc,  \* position inside _collect_job_urls
  collect_out, \* list returned by _collect_job_urls
  api,  \* the endpoint function handling the request
  scraper_result,  \* what the scraper call inside the endpoint does
  api_exc,  \* exception raised inside the endpoint try body
  api_pc,  \* position inside the endpoint function
  api_response, \* HTTP response delivered to the client
  sj_pc,  \* position inside GlassdoorScraper.scrape_jobs
  sj_driver,  \* scrape_jobs: the local driver is bound
  sj_raising,  \* scrape_jobs: an exception is propagating
  doc_count,  \* number of URLs handed to _extract_jobs_concurrent
  doc_pc,  \* position of each _extract_single_job call
  doc_driver,  \* _extract_single_job: the local driver is not None
  started,  \* browsers webdriver.Chrome has started, by creating call
  quits  \* number of quit() calls each browser received

scrape_vars == <<job_urls, idx, pc, frame, val, regex_tried, llm_called, llm_raised,
                 llm_fields,
                 result, results, scraped_jobs, user_agent_cycle, driver, metrics>>
lookup_vars == <<locators, attribute, lookup_pc, gd_text, sh_detail>>
seg_vars == <<seg_doc, seg_pc, seg_elements, seg_i, sections, current_section, current_content, seg_hist>>
worker_vars == <<batch_pc, w_pc, w_driver, w_outcome, unlocked>>
parse_vars == <<reply_content, parse_pc, match, parsed_fields, normalized_fields,
                llama_fields>>
llama_vars == <<groq, api_key, llama_reply, llama_pc, llama_out, jobs>>
retry_vars == <<func, retries, delay, logger, attempt, retry_pc, retry_out, retry_hist>>
collect_vars == <<num_jobs, page_links, hidden, button, find_raises, url_set, found, clicked, collect_pc, collect_out>>
api_vars == <<api, scraper_result, api_exc, api_pc, api_response>>
browser_vars == <<sj_pc, sj_driver, sj_raising, doc_count, doc_pc, doc_driver, started, quits>>
vars == <<scrape_vars, lookup_vars, seg_vars, worker_vars, parse_vars, llama_vars, retry_vars, collect_vars, api_vars, browser_vars>>
\* the variables that the steps of one component leave alone
not_scrape_vars == <<lookup_vars, seg_vars, worker_vars, parse_vars, llama_vars, retry_vars, collect_vars, api_vars, browser_vars>>
not_lookup_vars == <<scrape_vars, seg_vars, worker_vars, parse_vars, llama_vars, retry_vars, collect_vars, api_vars, browser_vars>>
not_seg_vars == <<scrape_vars, lookup_vars, worker_vars, parse_vars, llama_vars, retry_vars, collect_vars, api_vars, browser_vars>>

url == job_urls[idx]

\* ScraperConfig.user_agents has three entries
NumUserAgents == 3
\* next(self.user_agent_cycle) leaves the cycle at the following entry
NextAgent(k) == (k % NumUserAgents) + 1

\* driver = None, and a driver made with the k-th user agent
NoDriver == [user_agent |-> 0, alive |-> FALSE]
Driver(k) == [user_agent |-> k, alive |-> TRUE]
\* driver.quit() in the finally clause: if driver: driver.quit()
Quit(d) == [d EXCEPT !.alive = FALSE]

\* a page that is served differently to the first user agent
page_source_ByAgent(u, agent) ==
  IF agent = 1 THEN u ELSE [u EXCEPT !.head = [@ EXCEPT !.company = Absent(5)]]

\* driver.get(job_url) and driver.page_source: the document is static, every
\* user agent is served the same page
page_source(u, agent) == u

\* the page the driver of the running extraction holds
page == page_source(url, driver.user_agent)

NoMetrics == [extraction_success |-> 0, errors_total |-> 0]

DescFields == <<"jobType", "pay", "workLocation", "benefits", "schedule", "education",
                "mostRelevantSkills", "otherRelevantSkills">>
DescFieldSet == {DescFields[i] : i \in 1..Len(DescFields)}

EmptyFrame ==
  [title |-> PyNone, company |-> PyNone, location |-> PyNone, salary |-> PyNone,
   easy_apply |-> FALSE, company_logo |-> PyNone,
   job_desc_html |-> PyNone, job_desc_text |-> PyNone,
   extra_sections |-> EmptyDict,
   jobType |-> PyNone, pay |-> PyNone, workLocation |-> PyNone, benefits |-> PyNone,
   schedule |-> PyNone, education |-> PyNone,
   mostRelevantSkills |-> PyNone, otherRelevantSkills |-> PyNone]
NoVals == [f \in {RegexFields[i] : i \in 1..Len(RegexFields)} |-> PyNone]

Fresh ==
  /\ pc = "Init"
  /\ frame = EmptyFrame
  /\ val = NoVals
  /\ regex_tried = {}
  /\ llm_called = FALSE
  /\ llm_raised = FALSE
  /\ llm_fields = get_default_fields
  /\ result = PyNone
  /\ driver = NoDriver

LookupIdle ==
  /\ locators = <<>>
  /\ attribute = FALSE
  /\ lookup_pc = "Idle"
  /\ gd_text = PyNone
  /\ sh_detail = Ok(PyNone)

NoHist ==
  [headers |-> 0, commits |-> 0, appended |-> {}, stored |-> <<>>,
   ended |-> FALSE, end_open |-> FALSE, end_content |-> <<>>, end_commits |-> 0]

SegIdle ==
  /\ seg_doc = NoContainer
  /\ seg_pc = "Idle"
  /\ seg_elements = <<>>
  /\ seg_i = 0
  /\ sections = EmptyDict
  /\ current_section = PyNone
  /\ current_content = <<>>
  /\ seg_hist = NoHist

WorkersIdle ==
  /\ batch_pc = "Idle"
  /\ w_pc = <<>>
  /\ w_driver = <<>>
  /\ w_outcome = <<>>
  /\ unlocked = {}

ParseIdle ==
  /\ reply_content = <<>>
  /\ parse_pc = "Idle"
  /\ match = NoMatch
  /\ parsed_fields = PyNone
  /\ normalized_fields = PyNone
  /\ llama_fields = PyNone

LlamaIdle ==
  /\ groq = TRUE
  /\ api_key = TRUE
  /\ llama_reply = ModelRaises
  /\ llama_pc = "Idle"
  /\ llama_out = Ok(PyNone)
  /\ jobs = 0

\* ScraperConfig.retry_delay, and the default of the parameter delay
retry_delay == 2
NoRetryHist == [calls |-> 0, sleeps |-> 0, returned_at |-> 0, slept_after |-> {}]

RetryIdle ==
  /\ func = <<>>
  /\ retries = 0
  /\ delay = retry_delay
  /\ logger = TRUE
  /\ attempt = 0
  /\ retry_pc = "Idle"
  /\ retry_out = Ok(PyNone)
  /\ retry_hist = NoRetryHist

CollectIdle ==
  /\ num_jobs = 0
  /\ page_links = {}
  /\ hidden = {}
  /\ button = "never"
  /\ find_raises = FALSE
  /\ url_set = {}
  /\ found = FALSE
  /\ clicked = FALSE
  /\ collect_pc = "Idle"
  /\ collect_out = <<>>

NoResult == [raised |-> FALSE, success |-> "missing", error |-> "missing", rows |-> 0]

NoExc == [type |-> "none", status_code |-> 0, detail |-> <<>>]

NoResponse == [status |-> 0, detail |-> <<>>]

ApiIdle ==
  /\ api = "none"
  /\ scraper_result = NoResult
  /\ api_exc = NoExc
  /\ api_pc = "Idle"
  /\ api_response = NoResponse

MaxDocs == 2

Docs == 1..MaxDocs

\* the calls that create a browser: scrape_jobs (0) and each
\* _extract_single_job (its document number)
Owners == {0} \cup Docs

BrowsersIdle ==
  /\ sj_pc = "Idle"
  /\ sj_driver = FALSE
  /\ sj_raising = FALSE
  /\ doc_count = 0
  /\ doc_pc = [d \in Docs |-> "Idle"]
  /\ doc_driver = [d \in Docs |-> FALSE]
  /\ started = {}
  /\ quits = [o \in Owners |-> 0]

Init ==
  /\ job_urls \in SeqsOfLen(Urls, 1)
                    \cup UNION {SeqsOfLen(BatchUrls, n) : n \in 2..MaxJobs}
  /\ idx = 1
  /\ results = <<>>
  /\ scraped_jobs = <<>>
  /\ user_agent_cycle \in 1..NumUserAgents
  /\ metrics = NoMetrics
  /\ Fresh
  /\ LookupIdle
  /\ SegIdle
  /\ WorkersIdle
  /\ ParseIdle
  /\ LlamaIdle
  /\ RetryIdle
  /\ CollectIdle
  /\ ApiIdle
  /\ BrowsersIdle

\* lines 711-727: the driver is created and the page is loaded; an exception
\* there is caught by the handler of line 802
LoadPage ==
  /\ pc = "Init"
  /\ user_agent_cycle' = NextAgent(user_agent_cycle)
  /\ IF url.load_ok
     THEN /\ pc' = "StructuredPass"
          /\ driver' = Driver(user_agent_cycle)
          /\ UNCHANGED <<result, metrics>>
     ELSE /\ pc' = "Returned"
          /\ result' = PyNone
          \* either create_driver raises, which logs an error of its own and
          \* leaves driver None, or driver.get raises and the driver is quit;
          \* the handler of line 802 logs one error
          /\ \E created \in BOOLEAN :
               /\ driver' = IF created THEN Quit(Driver(user_agent_cycle)) ELSE NoDriver
               /\ metrics' = [metrics EXCEPT !.errors_total = @ + (IF created THEN 1 ELSE 2)]
  /\ UNCHANGED <<job_urls, idx, frame, val, regex_tried, llm_called, llm_raised, llm_fields,
                 results, scraped_jobs>>
  /\ UNCHANGED not_scrape_vars

\* what the locators of the description container find through the driver
RECURSIVE DriverDescOutcomes(_, _)
DriverDescOutcomes(sels, c) ==
  IF sels = <<>> THEN <<>>
  ELSE <<IF SelectorMatches(Head(sels), c) THEN Text(get_text(c.root, <<NL>>)) ELSE NoSuch>>
       \o DriverDescOutcomes(Tail(sels), c)

\* lines 735-744
DescText(c) ==
  LET job_desc_html == safe_extract_text(DriverDescOutcomes(job_description_selectors, c), FALSE)
  IN IF Truthy(job_desc_html) /\ SelectorMatches(job_description_selectors[1], c)
     THEN PyStr(get_text(c.root, <<NL>>))
     ELSE PyNone

\* the calls of safe_extract_text of lines 729-735 that return a value
StructuredHits(pg) ==
  Cardinality({f \in {"title", "company", "location", "salary", "easy_apply"} :
                 Truthy(safe_extract_text(pg.head[f], FALSE))})
    + (IF Truthy(safe_extract_text(pg.head.company_logo, TRUE)) THEN 1 ELSE 0)
    + (IF Truthy(safe_extract_text(DriverDescOutcomes(job_description_selectors, pg.desc),
                                   FALSE))
       THEN 1 ELSE 0)

\* lines 729-744
StructuredPass ==
  /\ pc = "StructuredPass"
  /\ frame' = [frame EXCEPT
       !.title = safe_extract_text(page.head.title, FALSE),
       !.company = safe_extract_text(page.head.company, FALSE),
       !.location = safe_extract_text(page.head.location, FALSE),
       !.salary = safe_extract_text(page.head.salary, FALSE),
       !.easy_apply = Truthy(safe_extract_text(page.head.easy_apply, FALSE)),
       !.company_logo = safe_extract_text(page.head.company_logo, TRUE),
       !.job_desc_html =
          safe_extract_text(DriverDescOutcomes(job_description_selectors, page.desc), FALSE),
       !.job_desc_text = DescText(page.desc)]
  \* line 355: every call of safe_extract_text that returns a value counts
  /\ metrics' = [metrics EXCEPT !.extraction_success = @ + StructuredHits(page)]
  /\ pc' = "SegmentPass"
  /\ UNCHANGED <<job_urls, idx, user_agent_cycle, driver, val, regex_tried, llm_called, llm_raised, llm_fields,
                 result, results, scraped_jobs>>
  /\ UNCHANGED not_scrape_vars

\* lines 746-755
SegmentPass ==
  /\ pc = "SegmentPass"
  /\ LET extra_sections == extract_job_description_sections(page.desc)
     IN frame' = [f \in DOMAIN frame |->
                    IF f = "extra_sections" THEN extra_sections
                    ELSE IF f \in DescFieldSet THEN DictGet(extra_sections, <<f>>)
                    ELSE frame[f]]
  /\ pc' = "RegexPass"
  /\ UNCHANGED <<job_urls, idx, user_agent_cycle, driver, metrics, val, regex_tried, llm_called, llm_raised, llm_fields,
                 result, results, scraped_jobs>>
  /\ UNCHANGED not_scrape_vars

\* locals()[field] = val : in a function body locals() is a snapshot of the
\* local variables, and a store into it does not reach the variable
LocalsStore(f, field, v) == f

\* lines 758-762, the loop over the six fields
RECURSIVE RegexLoop(_, _, _)
RegexLoop(fields, st, text) ==
  IF fields = <<>> THEN st
  ELSE IF Truthy(st.frame[Head(fields)]) THEN RegexLoop(Tail(fields), st, text)
  ELSE CHOOSE out \in
         {RegexLoop(Tail(fields), next, text) :
            next \in {[frame |-> IF Truthy(v) THEN LocalsStore(st.frame, Head(fields), v)
                                 ELSE st.frame,
                       val |-> [st.val EXCEPT ![Head(fields)] = v],
                       tried |-> st.tried \cup {Head(fields)}] :
                        v \in {extract_with_regex_fallback(text, Head(fields))}}} : TRUE

\* lines 756-762
RegexPass ==
  /\ pc = "RegexPass"
  /\ \E st \in {IF Truthy(frame.job_desc_text)
                 THEN RegexLoop(RegexFields,
                                [frame |-> frame, val |-> val, tried |-> regex_tried],
                                frame.job_desc_text)
                 ELSE [frame |-> frame, val |-> val, tried |-> regex_tried]} :
        /\ frame' = st.frame
        /\ val' = st.val
        /\ regex_tried' = st.tried
  /\ pc' = "GenerativePass"
  /\ UNCHANGED <<job_urls, idx, user_agent_cycle, driver, metrics,
                 llm_called, llm_raised, llm_fields, result, results, scraped_jobs>>
  /\ UNCHANGED not_scrape_vars

\* the condition of line 764 without its test of job_desc_text
NeedsLlm_WithoutText(f) == \E k \in DescFieldSet : ~Truthy(f[k])

\* the condition of line 764
NeedsLlm(f) ==
  Truthy(f.job_desc_text) /\ \E k \in DescFieldSet : ~Truthy(f[k])

\* the merge with the operands exchanged
MergeLlm_GenerativeFirst(a, b) == PyOr(b, a)

\* a or llm_fields.get(key), lines 766-773
MergeLlm(a, b) == PyOr(a, b)

\* whether the try block of extract_fields is entered and raises
LlmFailed(llm, job_desc_text) ==
  llm.client /\ Truthy(job_desc_text) /\ CallModel(llm.reply).raised

\* lines 763-773
GenerativePass ==
  /\ pc = "GenerativePass"
  /\ IF NeedsLlm(frame)
     THEN LET r == extract_fields(url.llm.client, frame.job_desc_text, url.llm.reply)
          IN \* an exception of extract_fields would reach the handler of line 802
             IF r.raised
             THEN /\ pc' = "Returned" /\ result' = PyNone
                  /\ llm_called' = TRUE
                  /\ llm_raised' = TRUE
                  /\ driver' = Quit(driver)
                  /\ metrics' = [metrics EXCEPT !.errors_total = @ + 1]
                  /\ UNCHANGED <<frame, llm_fields>>
             ELSE /\ llm_called' = TRUE
                  /\ llm_raised' = FALSE
                  /\ llm_fields' = r.v
                  /\ frame' = [f \in DOMAIN frame |->
                                 IF f \in DescFieldSet
                                 THEN MergeLlm(frame[f], DictGet(r.v, f))
                                 ELSE frame[f]]
                  /\ pc' = "Assemble"
                  \* line 475: the handler of extract_fields logs an error
                  /\ metrics' = [metrics EXCEPT !.errors_total =
                                   @ + (IF LlmFailed(url.llm, frame.job_desc_text)
                                        THEN 1 ELSE 0)]
                  /\ UNCHANGED <<result, driver>>
     ELSE /\ pc' = "Assemble"
          /\ UNCHANGED <<frame, llm_called, llm_raised, llm_fields, result, driver, metrics>>
  /\ UNCHANGED <<job_urls, idx, user_agent_cycle, val, regex_tried, results, scraped_jobs>>
  /\ UNCHANGED not_scrape_vars

\* the arguments of JobPosting(...), lines 781-800
PostingArgs(f, jl) ==
  [t |-> "args",
   title |-> PyOr(f.title, PyStr(<<>>)),
   company_name |-> f.company, location |-> f.location, salary |-> f.salary,
   job_type |-> f.jobType, pay |-> f.pay, work_location |-> f.workLocation,
   benefits |-> f.benefits, schedule |-> f.schedule, education |-> f.education,
   most_relevant_skills |-> f.mostRelevantSkills,
   other_relevant_skills |-> f.otherRelevantSkills,
   easy_apply |-> f.easy_apply, company_logo |-> f.company_logo,
   job_description |-> f.job_desc_text, extra_sections |-> f.extra_sections,
   job_id |-> jl]

\* lines 774-804: the record is built; a ValidationError is caught by the
\* handler of line 802, which returns None
Assemble ==
  /\ pc = "Assemble"
  /\ \E r \in {JobPosting(PostingArgs(frame, url.head.jl))} :
       /\ result' = IF r.raised THEN PyNone ELSE r.v
       /\ metrics' = [metrics EXCEPT !.errors_total = @ + (IF r.raised THEN 1 ELSE 0)]
  \* finally: if driver: driver.quit()
  /\ driver' = Quit(driver)
  /\ pc' = "Returned"
  /\ UNCHANGED <<job_urls, idx, user_agent_cycle, frame, val, regex_tried, llm_called, llm_raised, llm_fields,
                 results, scraped_jobs>>
  /\ UNCHANGED not_scrape_vars

\* _extract_jobs_async: the value of each task is gathered in URL order
Gather ==
  /\ pc = "Returned"
  /\ results' = Append(results, result)
  /\ IF idx < Len(job_urls)
     THEN /\ idx' = idx + 1
          /\ pc' = "Init"
          /\ frame' = EmptyFrame
          /\ val' = NoVals
          /\ regex_tried' = {}
          /\ llm_called' = FALSE
          /\ llm_raised' = FALSE
          /\ llm_fields' = get_default_fields
          /\ result' = PyNone
          /\ driver' = NoDriver
     ELSE /\ pc' = "Gathered"
          /\ UNCHANGED <<idx, frame, val, regex_tried, llm_called, llm_raised, llm_fields,
                         result, driver>>
  /\ UNCHANGED <<job_urls, scraped_jobs, user_agent_cycle, metrics>>
  /\ UNCHANGED not_scrape_vars

\* _extract_jobs_concurrent, line 702: [job for job in results if job]
extract_jobs_concurrent ==
  /\ pc = "Gathered"
  /\ scraped_jobs' = SelectSeq(results, Truthy)
  /\ pc' = "Done"
  /\ UNCHANGED <<job_urls, idx, user_agent_cycle, driver, metrics, frame, val, regex_tried, llm_called, llm_raised, llm_fields,
                 result, results>>
  /\ UNCHANGED not_scrape_vars

Next ==
  \/ LoadPage
  \/ StructuredPass
  \/ SegmentPass
  \/ RegexPass
  \/ GenerativePass
  \/ Assemble
  \/ Gather
  \/ extract_jobs_concurrent

Spec == Init /\ [][Next]_vars

(***************************************************************************)
(* The batch on the thread pool: _extract_jobs_async submits one task per  *)
(* URL to the executor, and the tasks run _extract_single_job concurrently *)
(* on the one GlassdoorScraper, sharing its DriverManager and the counters *)
(* of the module.                                                          *)
(***************************************************************************)
\* ScraperConfig.max_workers
max_workers == 3

\* lines 729-744: the local variables after the structured pass
StructuredFrame(pg) ==
  [EmptyFrame EXCEPT
     !.title = safe_extract_text(pg.head.title, FALSE),
     !.company = safe_extract_text(pg.head.company, FALSE),
     !.location = safe_extract_text(pg.head.location, FALSE),
     !.salary = safe_extract_text(pg.head.salary, FALSE),
     !.easy_apply = Truthy(safe_extract_text(pg.head.easy_apply, FALSE)),
     !.company_logo = safe_extract_text(pg.head.company_logo, TRUE),
     !.job_desc_html =
        safe_extract_text(DriverDescOutcomes(job_description_selectors, pg.desc), FALSE),
     !.job_desc_text = DescText(pg.desc)]

\* lines 746-755: the local variables after the section segmenter
SegmentFrame(f, pg) ==
  CHOOSE g \in {[k \in DOMAIN f |->
                    IF k = "extra_sections" THEN extra_sections
                    ELSE IF k \in DescFieldSet THEN DictGet(extra_sections, <<k>>)
                    ELSE f[k]] :
                 extra_sections \in {extract_job_description_sections(pg.desc)}} : TRUE

\* lines 756-762: the local variables after the regex fallback
RegexFrame(f) ==
  IF Truthy(f.job_desc_text)
  THEN RegexLoop(RegexFields, [frame |-> f, val |-> NoVals, tried |-> {}],
                 f.job_desc_text).frame
  ELSE f

\* lines 729-762: the local variables when the generative fallback is reached
FrameBeforeLlm(pg) ==
  CHOOSE g \in {RegexFrame(f) : f \in {SegmentFrame(StructuredFrame(pg), pg)}} : TRUE

\* lines 763-800: the generative fallback, the merge and the record
RecordOf(f, pg) ==
  IF NeedsLlm(f)
  THEN CHOOSE out \in
         {IF r.raised THEN Raised
          ELSE JobPosting(PostingArgs([k \in DOMAIN f |->
                                         IF k \in DescFieldSet
                                         THEN MergeLlm(f[k], DictGet(r.v, k))
                                         ELSE f[k]],
                                      pg.head.jl)) :
            r \in {extract_fields(pg.llm.client, f.job_desc_text, pg.llm.reply)}} : TRUE
  ELSE JobPosting(PostingArgs(f, pg.head.jl))

\* lines 712-801: the body of the try statement, on the page the driver got
TryBody(pg) ==
  IF ~pg.load_ok THEN Raised
  ELSE CHOOSE out \in {RecordOf(f, pg) : f \in {FrameBeforeLlm(pg)}} : TRUE

\* a handler that lets the exception through
ExceptReturnsNone_Reraise(r) == r

\* lines 802-804: except Exception: log the error, return None
ExceptReturnsNone(r) == IF r.raised THEN Ok(PyNone) ELSE r

\* lines 709-807: what _extract_single_job returns, or that it raises
extract_single_job(u, agent) == ExceptReturnsNone(TryBody(page_source(u, agent)))

\* the errors ScraperLogger.error counts in one run of lines 714-804
ErrorsLogged(pg) ==
  IF ~pg.load_ok THEN 1
  ELSE CHOOSE n \in
         {(IF NeedsLlm(f) /\ LlmFailed(pg.llm, f.job_desc_text) THEN 1 ELSE 0)
            + (IF RecordOf(f, pg).raised THEN 1 ELSE 0) :
          f \in {FrameBeforeLlm(pg)}} : TRUE

Tasks == 1..Len(job_urls)
Running == {w \in Tasks : w_pc[w] \in {"Created", "Finally"}}

\* the URLs of the batches on the pool: a page that gives a record, one
\* whose record fails validation, one that needs the generative fallback
\* and one that cannot be loaded
WorkerUrls ==
  {Url(TRUE, HeadFull, DescSections, Llm(FALSE, ModelRaises)),
   Url(TRUE, HeadNoTitle, NoContainer, Llm(FALSE, ModelRaises)),
   Url(TRUE, HeadFull, DescLabelled,
       Llm(TRUE, Content(<<LBrace, Members(FullReply), RBrace>>))),
   Url(FALSE, HeadFull, DescSections, Llm(TRUE, ModelRaises))}

InitWorkers ==
  /\ job_urls \in UNION {SeqsOfLen(WorkerUrls, n) : n \in 1..MaxJobs}
  /\ user_agent_cycle \in 1..NumUserAgents
  /\ metrics = NoMetrics
  /\ results = <<>>
  /\ scraped_jobs = <<>>
  /\ batch_pc = "Submitted"
  /\ w_pc = [w \in Tasks |-> "Queued"]
  /\ w_driver = [w \in Tasks |-> NoDriver]
  /\ w_outcome = [w \in Tasks |-> Ok(PyNone)]
  /\ unlocked = {}
  /\ idx = 1
  /\ pc = "Idle"
  /\ frame = EmptyFrame
  /\ val = NoVals
  /\ regex_tried = {}
  /\ llm_called = FALSE
  /\ llm_raised = FALSE
  /\ llm_fields = get_default_fields
  /\ result = PyNone
  /\ driver = NoDriver
  /\ LookupIdle
  /\ SegIdle
  /\ ParseIdle
  /\ LlamaIdle
  /\ RetryIdle
  /\ CollectIdle
  /\ ApiIdle
  /\ BrowsersIdle

not_worker_vars == <<idx, pc, frame, val, regex_tried, llm_called, llm_raised, llm_fields,
                     result, driver, lookup_vars, seg_vars, parse_vars, llama_vars, retry_vars, collect_vars, api_vars, browser_vars>>

\* lines 711-713 in a thread of the pool: create_driver takes the next user
\* agent from the cycle of the shared DriverManager. The interpreter runs
\* next() as one step; the code holds no lock around it. When the page
\* cannot be had, either create_driver raises after it, having logged an
\* error, and driver stays None, or driver.get raises later.
WorkerCreateDriver(w) ==
  /\ batch_pc = "Submitted"
  /\ w_pc[w] = "Queued"
  /\ Cardinality(Running) < max_workers
  /\ user_agent_cycle' = NextAgent(user_agent_cycle)
  /\ unlocked' = unlocked \cup {"user_agent_cycle"}
  /\ \E created \in {TRUE} \cup {job_urls[w].load_ok} :
       /\ w_driver' = [w_driver EXCEPT ![w] = IF created THEN Driver(user_agent_cycle)
                                               ELSE NoDriver]
       \* Counter.inc takes the lock of the counter
       /\ metrics' = [metrics EXCEPT !.errors_total = @ + (IF created THEN 0 ELSE 1)]
  /\ w_pc' = [w_pc EXCEPT ![w] = "Created"]
  /\ UNCHANGED <<job_urls, results, scraped_jobs, batch_pc, w_outcome>>
  /\ UNCHANGED not_worker_vars

\* lines 714-804 in a thread of the pool
WorkerExtract(w) ==
  /\ w_pc[w] = "Created"
  /\ \E pg \in {page_source(job_urls[w], w_driver[w].user_agent)} :
       /\ w_outcome' = [w_outcome EXCEPT ![w] = ExceptReturnsNone(TryBody(pg))]
       \* Counter.inc takes the lock of the counter
       /\ metrics' = [extraction_success |->
                         metrics.extraction_success
                           + (IF pg.load_ok THEN StructuredHits(pg) ELSE 0),
                      errors_total |-> metrics.errors_total + ErrorsLogged(pg)]
  /\ w_pc' = [w_pc EXCEPT ![w] = "Finally"]
  /\ UNCHANGED <<job_urls, results, scraped_jobs, user_agent_cycle, batch_pc, w_driver,
                 unlocked>>
  /\ UNCHANGED not_worker_vars

\* lines 805-807 in a thread of the pool: finally, if driver: driver.quit()
WorkerFinally(w) ==
  /\ w_pc[w] = "Finally"
  /\ w_driver' = [w_driver EXCEPT ![w] = IF @.alive THEN Quit(@) ELSE @]
  /\ w_pc' = [w_pc EXCEPT ![w] = "Finished"]
  /\ UNCHANGED <<job_urls, results, scraped_jobs, user_agent_cycle, metrics, batch_pc,
                 w_outcome, unlocked>>
  /\ UNCHANGED not_worker_vars

\* line 707: asyncio.gather gives the values of the tasks in the order of
\* the URLs, and raises what a task raised
GatherTasks ==
  /\ batch_pc = "Submitted"
  /\ \A w \in Tasks : w_pc[w] = "Finished"
  /\ IF \E w \in Tasks : w_outcome[w].raised
     THEN /\ batch_pc' = "Raised"
          /\ UNCHANGED results
     ELSE /\ batch_pc' = "Gathered"
          /\ results' = [w \in Tasks |-> w_outcome[w].v]
  /\ UNCHANGED <<job_urls, scraped_jobs, user_agent_cycle, metrics, w_pc, w_driver,
                 w_outcome, unlocked>>
  /\ UNCHANGED not_worker_vars

\* line 702: [job for job in results if job]
ReturnJobs ==
  /\ batch_pc = "Gathered"
  /\ scraped_jobs' = SelectSeq(results, Truthy)
  /\ batch_pc' = "Done"
  /\ UNCHANGED <<job_urls, results, user_agent_cycle, metrics, w_pc, w_driver,
                 w_outcome, unlocked>>
  /\ UNCHANGED not_worker_vars

NextWorkers ==
  \/ \E w \in Tasks : WorkerCreateDriver(w)
  \/ \E w \in Tasks : WorkerExtract(w)
  \/ \E w \in Tasks : WorkerFinally(w)
  \/ GatherTasks
  \/ ReturnJobs

SpecWorkers == InitWorkers /\ [][NextWorkers]_vars

(***************************************************************************)
(* The parse of one generative reply: _parse_llm_response step by step,    *)
(* then _normalize_llm_fields on what it returned.                         *)
(***************************************************************************)
MaxTokens == 4

\* the tokens of the replies: prose, the braces, the members of an object
\* and a JSON value that is not an object
ReplyTokens ==
  {Prose, LBrace, RBrace, Members(SentinelReply), Members(PlaceholderReply),
   JsonValue(PyInt(5))}

InitParse ==
  /\ reply_content \in UNION {SeqsOfLen(ReplyTokens, n) : n \in 0..MaxTokens}
  /\ parse_pc = "Start"
  /\ match = NoMatch
  /\ parsed_fields = PyNone
  /\ normalized_fields = PyNone
  /\ llama_fields = PyNone
  /\ job_urls = <<>>
  /\ idx = 1
  /\ results = <<>>
  /\ scraped_jobs = <<>>
  /\ pc = "Idle"
  /\ frame = EmptyFrame
  /\ val = NoVals
  /\ regex_tried = {}
  /\ llm_called = FALSE
  /\ llm_raised = FALSE
  /\ llm_fields = get_default_fields
  /\ result = PyNone
  /\ user_agent_cycle = 1
  /\ driver = NoDriver
  /\ metrics = NoMetrics
  /\ LookupIdle
  /\ SegIdle
  /\ WorkersIdle
  /\ LlamaIdle
  /\ RetryIdle
  /\ CollectIdle
  /\ ApiIdle
  /\ BrowsersIdle

not_parse_vars == <<scrape_vars, lookup_vars, seg_vars, worker_vars, llama_vars, retry_vars, collect_vars, api_vars, browser_vars>>

\* lines 511-512: try: return json.loads(content)
ParseDirect ==
  /\ parse_pc = "Start"
  /\ \E direct \in {json_loads(reply_content)} :
       IF direct.raised
       THEN parse_pc' = "Search" /\ UNCHANGED parsed_fields
       ELSE parse_pc' = "Parsed" /\ parsed_fields' = direct.v
  /\ UNCHANGED <<reply_content, match, normalized_fields, llama_fields>>
  /\ UNCHANGED not_parse_vars

\* lines 513-516: except json.JSONDecodeError: match = re.search(...)
ParseSearch ==
  /\ parse_pc = "Search"
  /\ match' = BraceMatch(reply_content)
  /\ parse_pc' = IF match'.ok THEN "Retry" ELSE "Fail"
  /\ UNCHANGED <<reply_content, parsed_fields, normalized_fields, llama_fields>>
  /\ UNCHANGED not_parse_vars

\* lines 517-520: json.loads(match.group(0)), a JSONDecodeError is passed
ParseRetry ==
  /\ parse_pc = "Retry"
  /\ \E second \in {json_loads(match.g)} :
       IF second.raised
       THEN parse_pc' = "Fail" /\ UNCHANGED parsed_fields
       ELSE parse_pc' = "Parsed" /\ parsed_fields' = second.v
  /\ UNCHANGED <<reply_content, match, normalized_fields, llama_fields>>
  /\ UNCHANGED not_parse_vars

\* lines 522-523: the warning and return {}
ParseFail ==
  /\ parse_pc = "Fail"
  /\ parsed_fields' = PyDict(EmptyDict)
  /\ parse_pc' = "Parsed"
  /\ UNCHANGED <<reply_content, match, normalized_fields, llama_fields>>
  /\ UNCHANGED not_parse_vars

\* line 472 of extract_fields: return self._normalize_llm_fields(fields);
\* what it raises is caught by extract_fields, which returns the defaults
Normalize ==
  /\ parse_pc = "Parsed"
  /\ normalized_fields' = ExceptException(normalize_llm_fields(parsed_fields)).v
  \* run_glassdoor_scraper.py parses a reply by the same three attempts
  \* (lines 600-614) and normalizes by its own function (line 630)
  /\ llama_fields' = ExceptException(llama_normalize_llm_fields(parsed_fields)).v
  /\ parse_pc' = "Done"
  /\ UNCHANGED <<reply_content, match, parsed_fields>>
  /\ UNCHANGED not_parse_vars

NextParse == ParseDirect \/ ParseSearch \/ ParseRetry \/ ParseFail \/ Normalize

SpecParse == InitParse /\ [][NextParse]_vars

\* no call of the pipeline of new_glassdoor.py is in progress
PipelineIdle ==
  /\ job_urls = <<>>
  /\ idx = 1
  /\ results = <<>>
  /\ scraped_jobs = <<>>
  /\ pc = "Idle"
  /\ frame = EmptyFrame
  /\ val = NoVals
  /\ regex_tried = {}
  /\ llm_called = FALSE
  /\ llm_raised = FALSE
  /\ llm_fields = get_default_fields
  /\ result = PyNone
  /\ user_agent_cycle = 1
  /\ driver = NoDriver
  /\ metrics = NoMetrics

(***************************************************************************)
(* run_glassdoor_scraper.py: the generative fallback of one job inside     *)
(* scrape_with_selenium.  The description text is present and a field is   *)
(* still missing, so line 510 calls extract_fields_with_llama.             *)
(***************************************************************************)
\* what the model call does: it raises, or it replies with a text
LlamaReplies ==
  {ModelRaises, [k |-> "content", content |-> PyNone]}
    \cup {Content(toks) : toks \in UNION {SeqsOfLen(ReplyTokens, n) : n \in 0..MaxTokens}}

InitLlama ==
  /\ groq \in BOOLEAN
  /\ api_key \in BOOLEAN
  /\ llama_reply \in LlamaReplies
  /\ llama_pc = "Start"
  /\ llama_out = Ok(PyNone)
  /\ jobs = 0
  /\ PipelineIdle
  /\ LookupIdle
  /\ SegIdle
  /\ WorkersIdle
  /\ ParseIdle
  /\ RetryIdle
  /\ CollectIdle
  /\ ApiIdle
  /\ BrowsersIdle

not_llama_vars == <<scrape_vars, lookup_vars, seg_vars, worker_vars, parse_vars, retry_vars, collect_vars, api_vars, browser_vars>>

\* lines 588-589: if groq is None: raise ImportError(...), before the try
LlamaImportCheck ==
  /\ llama_pc = "Start"
  /\ IF groq
     THEN llama_pc' = "Client" /\ UNCHANGED llama_out
     ELSE llama_pc' = "Left" /\ llama_out' = Raised
  /\ UNCHANGED <<groq, api_key, llama_reply, jobs>>
  /\ UNCHANGED not_llama_vars

\* line 590: client = groq.Groq(api_key=os.environ.get("GROQ_API_KEY")),
\* before the try.  Without a key the constructor of the library raises,
\* or it builds a client whose call is then refused.
LlamaClient ==
  /\ llama_pc = "Client"
  /\ IF api_key
     THEN llama_pc' = "Call" /\ UNCHANGED <<llama_out, llama_reply>>
     ELSE \E constructor_raises \in BOOLEAN :
            IF constructor_raises
            THEN llama_pc' = "Left" /\ llama_out' = Raised /\ UNCHANGED llama_reply
            ELSE llama_pc' = "Call" /\ llama_reply' = ModelRaises /\ UNCHANGED llama_out
  /\ UNCHANGED <<groq, api_key, jobs>>
  /\ UNCHANGED not_llama_vars

\* the body of the try statement, lines 592-630: the call, the three
\* attempts to parse the reply, normalize_llm_fields
LlamaTryBody(reply) ==
  IF reply.k = "raises" THEN Raised
  ELSE CHOOSE r \in {IF parsed.raised THEN Raised ELSE llama_normalize_llm_fields(parsed.v) :
                       parsed \in {parse_llm_response(reply.content)}} : TRUE

\* lines 591-642: try: ... except Exception: return the defaults
LlamaCall ==
  /\ llama_pc = "Call"
  /\ llama_out' = ExceptException(LlamaTryBody(llama_reply))
  /\ llama_pc' = "Left"
  /\ UNCHANGED <<groq, api_key, llama_reply, jobs>>
  /\ UNCHANGED not_llama_vars

\* lines 510-540 of scrape_with_selenium: the fields are merged and the
\* record of the job is appended
ScrapeAppend ==
  /\ llama_pc = "Left"
  /\ ~llama_out.raised
  /\ jobs' = jobs + 1
  /\ llama_pc' = "Appended"
  /\ UNCHANGED <<groq, api_key, llama_reply, llama_out>>
  /\ UNCHANGED not_llama_vars

\* lines 83 and 554-555: the try statement of scrape_with_selenium has a
\* finally clause and no handler, so what line 510 raises leaves the call
ScrapeRaise ==
  /\ llama_pc = "Left"
  /\ llama_out.raised
  /\ llama_pc' = "Raised"
  /\ UNCHANGED <<groq, api_key, llama_reply, llama_out, jobs>>
  /\ UNCHANGED not_llama_vars

NextLlama == LlamaImportCheck \/ LlamaClient \/ LlamaCall \/ ScrapeAppend \/ ScrapeRaise

SpecLlama == InitLlama /\ [][NextLlama]_vars

(***************************************************************************)
(* safe_execute_with_retry(func, retries, delay, logger), one step of its  *)
(* loop at a time.                                                         *)
(***************************************************************************)
MaxRetries == 3

\* what a call of func may do
FuncBehaviours ==
  {"returns", "TimeoutException", "StaleElementReferenceException",
   "NoSuchElementException", "ElementClickInterceptedException", "Exception"}

\* SmartRetryHandler.determine_retry_strategy
determine_retry_strategy(exception) ==
  CASE exception = "TimeoutException" -> "timeout"
    [] exception = "StaleElementReferenceException" -> "stale_element"
    [] exception = "NoSuchElementException" -> "no_such_element"
    [] exception = "ElementClickInterceptedException" -> "click_intercepted"
    [] OTHER -> "general"

\* SmartRetryHandler.retry_strategies[strategy](delay)
retry_strategies(strategy, d) ==
  IF strategy \in {"timeout", "general"} THEN d * 2 ELSE d

\* the variables of the pipeline other than the counters
pipeline_but_metrics ==
  <<job_urls, idx, pc, frame, val, regex_tried, llm_called, llm_raised, llm_fields,
    result, results, scraped_jobs, user_agent_cycle, driver>>

InitRetry ==
  /\ retries \in 0..MaxRetries
  /\ func \in SeqsOfLen(FuncBehaviours, retries)
  /\ logger \in BOOLEAN
  /\ delay = retry_delay
  /\ attempt = 0
  /\ retry_pc = "Loop"
  /\ retry_out = Ok(PyNone)
  /\ retry_hist = NoRetryHist
  /\ PipelineIdle
  /\ LookupIdle
  /\ SegIdle
  /\ WorkersIdle
  /\ ParseIdle
  /\ LlamaIdle
  /\ CollectIdle
  /\ ApiIdle
  /\ BrowsersIdle

not_retry_vars == <<pipeline_but_metrics, lookup_vars, seg_vars, worker_vars, parse_vars, llama_vars, collect_vars, api_vars, browser_vars>>

\* lines 244-246: for attempt in range(retries): try: return func()
RetryCall ==
  /\ retry_pc = "Loop"
  /\ attempt < retries
  /\ retry_hist' = [retry_hist EXCEPT !.calls = @ + 1,
                       !.returned_at = IF func[attempt + 1] = "returns" THEN attempt + 1 ELSE @]
  /\ IF func[attempt + 1] = "returns"
     THEN retry_pc' = "Returned" /\ retry_out' = Ok(PyInt(attempt + 1))
     ELSE retry_pc' = "Except" /\ UNCHANGED retry_out
  /\ UNCHANGED <<func, retries, delay, logger, attempt, metrics>>
  /\ UNCHANGED not_retry_vars

\* lines 247-255: the handler up to its sleep.  logger is the parameter,
\* None when no logger was passed: logger.error and logger.warning then
\* raise AttributeError inside the handler, and it leaves the function.
RetryExcept ==
  /\ retry_pc = "Except"
  /\ IF attempt = retries - 1
     THEN IF logger
          THEN \* ScraperLogger.error counts one error, line 250 another
               /\ metrics' = [metrics EXCEPT !.errors_total = @ + 2]
               /\ retry_out' = Ok(PyNone)
               /\ retry_pc' = "Returned"
               /\ UNCHANGED delay
          ELSE /\ retry_out' = Raised
               /\ retry_pc' = "Raised"
               /\ UNCHANGED <<delay, metrics>>
     ELSE /\ delay' = retry_strategies(determine_retry_strategy(func[attempt + 1]), delay)
          /\ IF logger
             THEN retry_pc' = "Sleep" /\ UNCHANGED retry_out
             ELSE retry_pc' = "Raised" /\ retry_out' = Raised
          /\ UNCHANGED metrics
  /\ UNCHANGED <<func, retries, logger, attempt, retry_hist>>
  /\ UNCHANGED not_retry_vars

\* line 256: time.sleep(delay), then the next turn of the loop
RetrySleep ==
  /\ retry_pc = "Sleep"
  /\ retry_hist' = [retry_hist EXCEPT !.sleeps = @ + 1,
                                      !.slept_after = @ \cup {attempt + 1}]
  /\ attempt' = attempt + 1
  /\ retry_pc' = "Loop"
  /\ UNCHANGED <<func, retries, delay, logger, retry_out, metrics>>
  /\ UNCHANGED not_retry_vars

\* line 258: the loop is over without a return: return None
RetryEnd ==
  /\ retry_pc = "Loop"
  /\ attempt >= retries
  /\ retry_out' = Ok(PyNone)
  /\ retry_pc' = "Returned"
  /\ UNCHANGED <<func, retries, delay, logger, attempt, retry_hist, metrics>>
  /\ UNCHANGED not_retry_vars

NextRetry == RetryCall \/ RetryExcept \/ RetrySleep \/ RetryEnd

SpecRetry == InitRetry /\ [][NextRetry]_vars

(***************************************************************************)
(* The two structured extractors on one ordered locator list.              *)
(***************************************************************************)
MaxLocators == 3

LocatorOutcomes ==
  { NoSuch, Raises,
    Found(<<>>, PyNone),
    Found(<<" ">>, PyStr(<<" ">>)),
    Found(<<" ", "Dev">>, PyStr(<<"logo", ".", "png">>)),
    Found(<<"QA">>, PyStr(<<>>)) }

InitLookup ==
  /\ locators \in UNION {SeqsOfLen(LocatorOutcomes, n) : n \in 0..MaxLocators}
  /\ attribute \in BOOLEAN
  /\ lookup_pc = "Start"
  /\ gd_text = PyNone
  /\ sh_detail = Ok(PyNone)
  /\ job_urls = <<>>
  /\ idx = 1
  /\ results = <<>>
  /\ scraped_jobs = <<>>
  /\ pc = "Idle"
  /\ frame = EmptyFrame
  /\ val = NoVals
  /\ regex_tried = {}
  /\ llm_called = FALSE
  /\ llm_raised = FALSE
  /\ llm_fields = get_default_fields
  /\ result = PyNone
  /\ user_agent_cycle = 1
  /\ driver = NoDriver
  /\ metrics = NoMetrics
  /\ SegIdle
  /\ WorkersIdle
  /\ ParseIdle
  /\ LlamaIdle
  /\ RetryIdle
  /\ CollectIdle
  /\ ApiIdle
  /\ BrowsersIdle

\* one field of the loop "Extract single-value fields" of
\* SimplyHiredScraper._extract_job_detail_fields
SimplyHiredLookup ==
  /\ lookup_pc = "Start"
  /\ sh_detail' = sh_field_loop(locators, attribute)
  /\ lookup_pc' = "SimplyHired"
  /\ UNCHANGED <<locators, attribute, gd_text>>
  /\ UNCHANGED not_lookup_vars

\* FieldExtractor.safe_extract_text(driver, selectors, attribute)
GlassdoorLookup ==
  /\ lookup_pc = "SimplyHired"
  /\ gd_text' = safe_extract_text(locators, attribute)
  /\ lookup_pc' = "Done"
  /\ UNCHANGED <<locators, attribute, sh_detail>>
  /\ UNCHANGED not_lookup_vars

NextLookup == SimplyHiredLookup \/ GlassdoorLookup

SpecLookup == InitLookup /\ [][NextLookup]_vars

(***************************************************************************)
(* FieldExtractor.extract_job_description_sections, one step of its loop   *)
(* at a time, on a document drawn from the nodes below.                    *)
(***************************************************************************)
MaxNodes == 3

Ten == "aaaaaaaaaa"
Fifty == Ten \o Ten \o Ten \o Ten \o Ten
Word199 == Fifty \o Fifty \o Fifty \o "aaaaaaaaaaaaaaaaaaaaaaaaaaaaaaaaaaaaaaaaaaaaaaaaa"
Word200 == Fifty \o Fifty \o Fifty \o Fifty

\* the children a description container is made of
SegNodes ==
  { B(<<"Pay", ":">>),
    H3(<<"Stipend">>),
    Elem("strong", <<TextNode(<<" ">>)>>),
    P(<<"Intro">>),
    UL(<< <<"A">>, <<" ">>, <<"B">> >>),
    Elem("p", <<Elem("b", <<TextNode(<<"Benefits", ":">>)>>), TextNode(<<" ", "Health">>)>>),
    Elem("div", <<P(<<Word199>>)>>),
    P(<<Word200>>) }

SegDocs ==
  {NoContainer, DescAltClass}
    \cup {Primary(kids) : kids \in UNION {SeqsOfLen(SegNodes, n) : n \in 0..MaxNodes}}

InitSegment ==
  /\ seg_doc \in SegDocs
  /\ seg_pc = "Start"
  /\ seg_elements = <<>>
  /\ seg_i = 0
  /\ sections = EmptyDict
  /\ current_section = PyNone
  /\ current_content = <<>>
  /\ seg_hist = NoHist
  /\ LookupIdle
  /\ job_urls = <<>>
  /\ idx = 1
  /\ results = <<>>
  /\ scraped_jobs = <<>>
  /\ pc = "Idle"
  /\ frame = EmptyFrame
  /\ val = NoVals
  /\ regex_tried = {}
  /\ llm_called = FALSE
  /\ llm_raised = FALSE
  /\ llm_fields = get_default_fields
  /\ result = PyNone
  /\ user_agent_cycle = 1
  /\ driver = NoDriver
  /\ metrics = NoMetrics
  /\ WorkersIdle
  /\ ParseIdle
  /\ LlamaIdle
  /\ RetryIdle
  /\ CollectIdle
  /\ ApiIdle
  /\ BrowsersIdle

\* what a commit point adds to the history: a store is counted and kept
\* with the content it was made from
NoteCommit(h, section, content) ==
  IF HasSectionToSave(section, content)
  THEN [h EXCEPT !.commits = @ + 1,
                 !.stored = <<[key |-> section.s, content |-> content,
                               value |-> process_section_content(content)]>>]
  ELSE [h EXCEPT !.stored = <<>>]

\* lines 369-383: the container is looked up; without one the empty map is
\* returned
SegFind ==
  /\ seg_pc = "Start"
  /\ IF SegmenterFindsContainer(seg_doc)
     THEN seg_pc' = "Loop" /\ seg_i' = 1 /\ seg_elements' = Descendants(seg_doc.root)
     ELSE seg_pc' = "Done" /\ seg_i' = 0 /\ UNCHANGED seg_elements
  /\ UNCHANGED <<seg_doc, sections, current_section, current_content, seg_hist>>
  /\ UNCHANGED not_seg_vars

\* lines 387-394: a header node
SegHeader ==
  /\ seg_pc = "Loop"
  /\ seg_i <= Len(seg_elements)
  /\ seg_elements[seg_i].name \in HeaderTags
  /\ sections' = CommitSection(sections, current_section, current_content)
  /\ current_section' =
       PyStr(section_map_get(RStripColon(LowerStr(get_text(seg_elements[seg_i], <<>>)))))
  /\ current_content' = <<>>
  /\ seg_hist' = [NoteCommit(seg_hist, current_section, current_content)
                    EXCEPT !.headers = @ + 1]
  /\ seg_i' = seg_i + 1
  /\ UNCHANGED <<seg_doc, seg_pc, seg_elements>>
  /\ UNCHANGED not_seg_vars

\* lines 396-399: a content node while a section is open
SegContent ==
  /\ seg_pc = "Loop"
  /\ seg_i <= Len(seg_elements)
  /\ seg_elements[seg_i].name \notin HeaderTags
  /\ AcceptsContent(seg_elements[seg_i], current_section)
  /\ \E text \in {get_text(seg_elements[seg_i], <<>>)} :
       IF text # <<>>
       THEN /\ current_content' = Append(current_content, text)
            /\ seg_hist' = [seg_hist EXCEPT !.appended = @ \cup {seg_i}, !.stored = <<>>]
       ELSE /\ UNCHANGED current_content
            /\ seg_hist' = [seg_hist EXCEPT !.stored = <<>>]
  /\ seg_i' = seg_i + 1
  /\ UNCHANGED <<seg_doc, seg_pc, seg_elements, sections, current_section>>
  /\ UNCHANGED not_seg_vars

\* any other node: a string, another tag, or a content node while no
\* section is open
SegSkip ==
  /\ seg_pc = "Loop"
  /\ seg_i <= Len(seg_elements)
  /\ seg_elements[seg_i].name \notin HeaderTags
  /\ ~AcceptsContent(seg_elements[seg_i], current_section)
  /\ seg_i' = seg_i + 1
  /\ seg_hist' = [seg_hist EXCEPT !.stored = <<>>]
  /\ UNCHANGED <<seg_doc, seg_pc, seg_elements, sections, current_section, current_content>>
  /\ UNCHANGED not_seg_vars

\* lines 402-406: "Save last section" and the return
SegLast ==
  /\ seg_pc = "Loop"
  /\ seg_i > Len(seg_elements)
  /\ sections' = CommitSection(sections, current_section, current_content)
  /\ seg_hist' = [NoteCommit(seg_hist, current_section, current_content)
                    EXCEPT !.ended = TRUE,
                           !.end_open = Truthy(current_section),
                           !.end_content = current_content,
                           !.end_commits =
                              IF HasSectionToSave(current_section, current_content)
                              THEN 1 ELSE 0]
  /\ seg_pc' = "Done"
  /\ UNCHANGED <<seg_doc, seg_elements, seg_i, current_section, current_content>>
  /\ UNCHANGED not_seg_vars

NextSegment == SegFind \/ SegHeader \/ SegContent \/ SegSkip \/ SegLast

SpecSegment == InitSegment /\ [][NextSegment]_vars

(***************************************************************************)
(* Properties.                                                             *)
(***************************************************************************)
RegexFieldSet == {RegexFields[i] : i \in 1..Len(RegexFields)}

\* the field of a JobPosting that holds a description-derived field
RecField(r, f) ==
  CASE f = "jobType" -> r.job_type
    [] f = "pay" -> r.pay
    [] f = "workLocation" -> r.work_location
    [] f = "benefits" -> r.benefits
    [] f = "schedule" -> r.schedule
    [] f = "education" -> r.education
    [] f = "mostRelevantSkills" -> r.most_relevant_skills
    [] OTHER -> r.other_relevant_skills

\* what the validators of JobPosting make of a value given for a field
Validated(f, v) ==
  CASE f = "pay" -> normalize_currency(v)
    [] f \in ListKeySet -> ensure_list(v)
    [] OTHER -> v

Segmented(f) == DictGet(frame.extra_sections, <<f>>)
HasRecord == pc \in {"Returned", "Gathered", "Done"} /\ result.t = "JobPosting"
AfterSegmentPass == pc \in {"RegexPass", "GenerativePass", "Assemble", "Returned"}

\* C1 as stated: a field the segmenter resolved is held by the record as
\* exactly the segmenter's value
C1_Original ==
  HasRecord =>
    \A f \in DescFieldSet :
      Truthy(Segmented(f)) => RecField(result, f) = Segmented(f)

\* C1, amended: a field the segmenter resolved keeps the segmenter's value
\* through the regex and the generative pass, and the record holds what the
\* validators of JobPosting make of that value (pay without the characters
\* normalize_currency removes, a skill string split into a list; the other
\* fields unchanged)
C1_SegmenterValueWins ==
  \A f \in DescFieldSet :
    Truthy(Segmented(f)) =>
      /\ AfterSegmentPass => frame[f] = Segmented(f)
      /\ HasRecord => RecField(result, f) = Validated(f, Segmented(f))

\* a record whose job type came from the segmenter although the generative
\* pass, which was called, returned another job type
C1_Witness ==
  /\ HasRecord
  /\ llm_called
  /\ Truthy(Segmented("jobType"))
  /\ llm_fields["jobType"] # NotSpecified
  /\ llm_fields["jobType"] # Segmented("jobType")
  /\ result.job_type = Segmented("jobType")

\* C2: a field the segmenter left empty and the regex fallback found is held
\* by the record with the regex value (as the validators store it)
C2_RegexValueStored ==
  HasRecord =>
    \A f \in RegexFieldSet :
      (Truthy(frame.job_desc_text) /\ ~Truthy(Segmented(f)) /\ Truthy(val[f]))
        => RecField(result, f) = Validated(f, val[f])

\* C3: a sentinel returned by the generative pass for a scalar field that
\* neither the segmenter nor the regex pass resolved leaves the field None,
\* and a list it returned for mostRelevantSkills is stored
C3_SentinelExcluded ==
  (HasRecord /\ llm_called) =>
    /\ \A f \in ScalarKeySet :
         (~Truthy(Segmented(f)) /\ ~Truthy(val[f]) /\ llm_fields[f] = NotSpecified)
           => RecField(result, f) = PyNone
    /\ (~Truthy(Segmented("mostRelevantSkills")) /\ Truthy(llm_fields["mostRelevantSkills"]))
         => result.most_relevant_skills = llm_fields["mostRelevantSkills"]

\* the text of the first locator, in list order, that finds an element whose
\* text is not empty after trimming
FirstText(outcomes) ==
  LET hits == {i \in 1..Len(outcomes) :
                 outcomes[i].k = "Elem" /\ Strip(outcomes[i].text) # <<>>}
      first == CHOOSE i \in hits : \A m \in hits : i <= m
  IN IF hits = {} THEN PyNone ELSE PyStr(Strip(outcomes[first].text))

\* C4 as stated: title, company, location and salary of the record are the
\* trimmed text of their structured locator
C4_Original ==
  HasRecord =>
    /\ Truthy(FirstText(url.head.title)) => result.title = FirstText(url.head.title)
    /\ Truthy(FirstText(url.head.company)) => result.company_name = FirstText(url.head.company)
    /\ Truthy(FirstText(url.head.location)) => result.location = FirstText(url.head.location)
    /\ Truthy(FirstText(url.head.salary)) => result.salary = FirstText(url.head.salary)

\* C4, amended: title, company and location of the record are the trimmed
\* text of their structured locator, and salary is that text as
\* normalize_currency stores it; no later pass changes any of them
C4_StructuredHitKept ==
  /\ pc \in {"SegmentPass", "RegexPass", "GenerativePass", "Assemble"} =>
       /\ frame.title = FirstText(url.head.title)
       /\ frame.company = FirstText(url.head.company)
       /\ frame.location = FirstText(url.head.location)
       /\ frame.salary = FirstText(url.head.salary)
  /\ HasRecord =>
       /\ result.title = FirstText(url.head.title)
       /\ result.company_name = FirstText(url.head.company)
       /\ result.location = FirstText(url.head.location)
       /\ result.salary = normalize_currency(FirstText(url.head.salary))

\* a record of a page with all four structured fields, built after the
\* generative pass returned values of its own
C4_Witness ==
  /\ HasRecord
  /\ llm_called
  /\ llm_fields # get_default_fields
  /\ Truthy(result.company_name) /\ Truthy(result.location) /\ Truthy(result.salary)
  /\ result.salary # FirstText(url.head.salary)

\* whether an earlier pass (segmenter or regex fallback) resolved a field
Resolved(f) == Truthy(Segmented(f)) \/ (f \in RegexFieldSet /\ Truthy(val[f]))

\* C5: the generative pass is called only with description text and with a
\* target field that the segmenter and the regex pass both left empty
C5_GenerativeOnlyWhenNeeded ==
  llm_called =>
    /\ Truthy(frame.job_desc_text)
    /\ \E f \in DescFieldSet : ~Resolved(f)

\* the replies for which C6 asks for the all-default structure
Unparsable(content) ==
  /\ content.t = "str"
  /\ json_loads(content.s).raised
  /\ (~BraceMatch(content.s).ok \/ json_loads(BraceMatch(content.s).g).raised)
WellShaped(d) ==
  \A key \in DOMAIN d \cap TargetKeys :
    IF key \in ListKeySet THEN IsListOfStr(d[key]) ELSE d[key].t = "str"
NotAnExpectedObject(content) ==
  /\ content.t = "str"
  /\ ~json_loads(content.s).raised
  /\ LET v == json_loads(content.s).v
     IN v.t # "dict" \/ ~WellShaped(v.d)

\* C6: without a client, on an exception of the model call, and on a reply
\* that is unparsable or not an object of the expected shape, extract_fields
\* returns the all-default structure, and it never raises
C6_DefaultsOnFailure ==
  llm_called =>
    /\ ~llm_raised
    /\ (pc \in {"Assemble", "Returned"} /\
        (\/ ~url.llm.client
         \/ url.llm.reply.k = "raises"
         \/ Unparsable(url.llm.reply.content)
         \/ NotAnExpectedObject(url.llm.reply.content)))
         => llm_fields = get_default_fields

\* C7: for every document that was loaded, _extract_single_job returns a
\* record
C7_AlwaysARecord ==
  (pc = "Returned" /\ url.load_ok) => result.t = "JobPosting"

\* C8: for a page without a description container neither the regex pass
\* nor the generative pass is attempted, and every description-derived
\* field of the record is None or empty
C8_NoContainerNoPasses ==
  url.desc = NoContainer =>
    /\ regex_tried = {}
    /\ ~llm_called
    /\ HasRecord =>
         /\ \A f \in ScalarKeySet : RecField(result, f) = PyNone
         /\ \A f \in ListKeySet : RecField(result, f) = PyList(<<>>)

\* a record returned for a page without a description container
C8_Witness ==
  /\ pc = "Returned"
  /\ url.desc = NoContainer
  /\ result.t = "JobPosting"

\* C9: every record of scraped_jobs has a non-empty title without leading
\* or trailing whitespace
C9_TitlesTrimmed ==
  \A i \in 1..Len(scraped_jobs) :
    /\ scraped_jobs[i].t = "JobPosting"
    /\ scraped_jobs[i].title.t = "str"
    /\ scraped_jobs[i].title.s # <<>>
    /\ ~IsSpace(Head(scraped_jobs[i].title.s))
    /\ ~IsSpace(scraped_jobs[i].title.s[Len(scraped_jobs[i].title.s)])

\* a finished batch that dropped a document and kept a record whose title
\* text had surrounding blanks on the page
C9_Witness ==
  /\ pc = "Done"
  /\ Len(scraped_jobs) >= 1
  /\ Len(scraped_jobs) < Len(results)
  /\ \E i \in 1..Len(job_urls) :
       /\ job_urls[i].head = HeadFull
       /\ results[i].t = "JobPosting"

\* what C10 asks of an extractor: the content of the first locator that
\* finds an element whose content is not empty after trimming, else None
FirstContent(outcomes, attr) ==
  LET content(o) == IF attr THEN o.attr ELSE PyStr(o.text)
      hits == {i \in 1..Len(outcomes) :
                 /\ outcomes[i].k = "Elem"
                 /\ content(outcomes[i]).t = "str"
                 /\ Strip(content(outcomes[i]).s) # <<>>}
      first == CHOOSE i \in hits : \A m \in hits : i <= m
  IN IF hits = {} THEN PyNone
     ELSE IF attr THEN outcomes[first].attr
     ELSE PyStr(Strip(outcomes[first].text))

\* C10: both structured extractors return the content of the first
\* qualifying locator and skip a locator that finds nothing, raises or
\* yields empty content
C10_FirstQualifyingLocator ==
  /\ lookup_pc \in {"SimplyHired", "Done"} =>
       /\ ~sh_detail.raised
       /\ sh_detail.v = FirstContent(locators, attribute)
  /\ lookup_pc = "Done" => gd_text = FirstContent(locators, attribute)


(***************************************************************************)
(* Properties of the section segmenter.                                    *)
(***************************************************************************)
HeaderPositions == {i \in 1..Len(seg_elements) : seg_elements[i].name \in HeaderTags}
\* the position of the first header node, or past the end without one
FirstHeader ==
  IF HeaderPositions = {} THEN Len(seg_elements) + 1
  ELSE CHOOSE i \in HeaderPositions : \A m \in HeaderPositions : i <= m
\* the content nodes with text, as positions
TextContentPositions ==
  {i \in 1..Len(seg_elements) :
     seg_elements[i].name \in ContentTags /\ get_text(seg_elements[i], <<>>) # <<>>}
\* the strings a section map holds: string values and list items
StringsOf(d) ==
  {d[k].s : k \in {x \in DOMAIN d : d[x].t = "str"}}
    \cup UNION {{d[k].l[j].s : j \in 1..Len(d[k].l)} : k \in {x \in DOMAIN d : d[x].t = "list"}}

\* C11: a content node before the first header contributes to no section:
\* its text is never appended to the content of a section, the returned map
\* is the one of the same nodes without those before the first header, and
\* its text is in no value of the map unless a later content node carries
\* the same text
C11_PreHeaderContentDiscarded ==
  /\ \A i \in seg_hist.appended : i > FirstHeader
  /\ seg_pc = "Done" /\ SegmenterFindsContainer(seg_doc) =>
       /\ sections = extract_job_description_sections(seg_doc)
       /\ sections = SegmentLoop(SubSeq(seg_elements, FirstHeader, Len(seg_elements)),
                                 EmptyDict, PyNone, <<>>)
       /\ \A i \in TextContentPositions :
            (/\ i < FirstHeader
             /\ \A m \in TextContentPositions :
                  m > FirstHeader =>
                    get_text(seg_elements[m], <<>>) # get_text(seg_elements[i], <<>>))
              => get_text(seg_elements[i], <<>>) \notin StringsOf(sections)

\* a finished traversal of a document with a content node before its first
\* header and a section stored after it
C11_Witness ==
  /\ seg_pc = "Done"
  /\ \E i \in TextContentPositions : i < FirstHeader
  /\ DOMAIN sections # {}

\* C12, as stated: commits never exceed the headers seen, the section open
\* at the end of the traversal is committed exactly once, and the map has at
\* most as many keys as there were headers
C12_Original ==
  /\ seg_hist.commits <= seg_hist.headers
  /\ seg_hist.ended /\ seg_hist.end_open => seg_hist.end_commits = 1
  /\ Cardinality(DOMAIN sections) <= seg_hist.headers

\* C12: commits never exceed the headers seen; the section open at the end
\* of the traversal is committed once when it has content, and then the map
\* holds it, and not at all when it has none; the map has at most as many
\* keys as there were headers
C12_AtMostOneCommitPerHeader ==
  /\ seg_hist.commits <= seg_hist.headers
  /\ seg_hist.ended /\ seg_hist.end_open =>
       IF seg_hist.end_content # <<>>
       THEN /\ seg_hist.end_commits = 1
            /\ current_section.s \in DOMAIN sections
            /\ sections[current_section.s] = process_section_content(seg_hist.end_content)
       ELSE seg_hist.end_commits = 0
  /\ Cardinality(DOMAIN sections) <= seg_hist.headers

\* a finished traversal that committed at a header and again at the end
C12_Witness ==
  /\ seg_pc = "Done"
  /\ seg_hist.end_open
  /\ seg_hist.end_content # <<>>
  /\ seg_hist.headers >= 2
  /\ seg_hist.commits >= 2

\* the section committed by the last commit point passed, if it committed
Committed == seg_hist.stored

\* C18: the value of a committed section is decided by its content strings
\* alone: one string is stored as that string; two or more strings all
\* shorter than 200 characters are stored as a list in document order; two
\* or more of which one has 200 or more characters are stored as the one
\* string that joins them with a space
C18_ContentTypeDecision ==
  \A c \in {Committed[i] : i \in 1..Len(Committed)} :
    /\ Len(c.content) >= 1
    /\ Len(c.content) = 1 => sections[c.key] = PyStr(c.content[1])
    /\ (Len(c.content) >= 2 /\ \A i \in 1..Len(c.content) : StrLen(c.content[i]) < 200) =>
          /\ sections[c.key].t = "list"
          /\ Len(sections[c.key].l) = Len(c.content)
          /\ \A i \in 1..Len(c.content) : sections[c.key].l[i] = PyStr(c.content[i])
    /\ (Len(c.content) >= 2 /\ \E i \in 1..Len(c.content) : StrLen(c.content[i]) >= 200) =>
          sections[c.key] = PyStr(Join(c.content, <<" ">>))

\* a section was committed whose two strings are a short one and one of
\* exactly 200 characters: it is stored as one joined string
C18_Witness ==
  /\ seg_pc = "Done"
  /\ Len(Committed) = 1
  /\ Len(Committed[1].content) = 2
  /\ StrLen(Committed[1].content[1]) < 200
  /\ StrLen(Committed[1].content[2]) = 200
  /\ sections[Committed[1].key].t = "str"

\* the canonical key of the header node at position p
KeyOf(p) == section_map_get(RStripColon(LowerStr(get_text(seg_elements[p], <<>>))))
\* whether a content string was appended after the header at p and before
\* the next header
HasContent(p) ==
  \E a \in seg_hist.appended : a > p /\ \A h \in HeaderPositions : h > p => a < h

\* C19: a header with no content before the next header or the end of the
\* traversal stores nothing, at either commit point: no value of the map is
\* an empty string or an empty list, every key of the returned map is the
\* key of a header that had content, and a commit point reached with no
\* content leaves the map as it was
C19_ContentlessHeaderNotStored ==
  /\ [](\A k \in DOMAIN sections : sections[k] \notin {PyStr(<<>>), PyList(<<>>)})
  /\ [](seg_pc = "Done" =>
         \A k \in DOMAIN sections :
           \E p \in HeaderPositions : KeyOf(p) = k /\ HasContent(p))
  /\ [][current_content = <<>> => sections' = sections]_vars

\* a finished traversal whose last header had no content and has the key
\* of an earlier section: that section's value is still in the map
C19_Witness ==
  /\ seg_pc = "Done"
  /\ seg_hist.end_open
  /\ seg_hist.end_content = <<>>
  /\ \E p, q \in HeaderPositions :
       /\ p < q
       /\ KeyOf(p) = KeyOf(q)
       /\ HasContent(p)
       /\ ~HasContent(q)
       /\ \A h \in HeaderPositions : h <= q
       /\ KeyOf(q) \in DOMAIN sections
       /\ sections[KeyOf(q)] = PyStr(get_text(seg_elements[p + 2], <<>>))

\* the positions of the nodes below the node at position i
Below(i) == (i + 1)..(i + Len(Descendants(seg_elements[i])))

\* C26: the text of a content element is recorded at most once and only
\* under the section of the nearest preceding header: no element is
\* recorded together with an element nested in it, and no recorded element
\* contains a header element
C26_ContentRecordedOnce ==
  \A i \in seg_hist.appended :
    /\ \A j \in seg_hist.appended : j \notin Below(i)
    /\ \A j \in Below(i) : seg_elements[j].name \notin HeaderTags

\* the first half alone
NestedContentRecordedOnce ==
  \A i, j \in seg_hist.appended : j \notin Below(i)
\* the second half alone
LabelledParagraphNotRecorded ==
  \A i \in seg_hist.appended : \A j \in Below(i) : seg_elements[j].name \notin HeaderTags

(***************************************************************************)
(* Properties of the pipeline, continued.                                  *)
(***************************************************************************)
\* the description of the round trip: a header "Responsibilities", a list
\* with the items A and B, and the labelled paragraph "Pay: ₹50,000 per month"
IsRoundTripDoc == url.desc \in {DescRoundTrip, DescRoundTripBold, DescRoundTripHeader}

\* C13: the round-trip description is segmented into responsibilities =
\* ["A", "B"], the record holds pay = "₹50,000 per month", and neither the
\* regex pass nor the generative pass is invoked
C13_RoundTrip ==
  (pc \in {"Assemble", "Returned"} /\ idx <= Len(job_urls) /\ IsRoundTripDoc) =>
    /\ DictGet(frame.extra_sections, <<"responsibilities">>)
         = PyList(<<PyStr(<<"A">>), PyStr(<<"B">>)>>)
    /\ regex_tried = {}
    /\ ~llm_called
    /\ result.t = "JobPosting" => result.pay = PyStr(Rupees50k)

HasEmptyEntry(v) == v.t = "list" /\ \E i \in 1..Len(v.l) : v.l[i] = PyStr(<<>>)

\* C17: no list-typed field of a produced record (benefits, schedule, the
\* skill lists, a list-valued entry of extra_sections) holds an empty string
C17_NoEmptyListEntries ==
  pc = "Returned" /\ result.t = "JobPosting" =>
    /\ \A f \in {"benefits", "schedule", "most_relevant_skills",
                  "other_relevant_skills"} : ~HasEmptyEntry(result[f])
    /\ \A k \in DOMAIN result.extra_sections :
         ~HasEmptyEntry(result.extra_sections[k])

\* whether the entries of list v are trimmed and pairwise different
TrimmedAndUnique(v) ==
  /\ v.t = "list"
  /\ \A i \in 1..Len(v.l) : v.l[i].t = "str" /\ Strip(v.l[i].s) = v.l[i].s
  /\ \A i, j \in 1..Len(v.l) : i # j => v.l[i] # v.l[j]

\* C23: the skill lists of an assembled record are trimmed and
\* de-duplicated, whichever pass the list came from
C23_SkillListsTrimmedUnique ==
  pc = "Returned" /\ result.t = "JobPosting" =>
    /\ TrimmedAndUnique(result.most_relevant_skills)
    /\ TrimmedAndUnique(result.other_relevant_skills)

\* the entries of the skill lists are trimmed
SkillListsTrimmed ==
  pc = "Returned" /\ result.t = "JobPosting" =>
    \A f \in {"most_relevant_skills", "other_relevant_skills"} :
      \A i \in 1..Len(result[f].l) : Strip(result[f].l[i].s) = result[f].l[i].s

\* a digit, a separator other than whitespace, or a currency symbol
IsRetainedKind(x) == IsNum(x) \/ x \in {",", ".", "-"} \/ x \in CurrencySyms
\* any other punctuation character
IsOtherPunctuation(x) == x \in Puncts \ {",", ".", "-"}

\* C24: the salary and the pay of a record keep every digit, separator and
\* currency symbol of the extracted string, in order, and hold no other
\* punctuation character
C24_CurrencyNormalized ==
  pc = "Returned" /\ result.t = "JobPosting" =>
    \A f \in {"salary", "pay"} :
      Truthy(frame[f]) /\ frame[f].t = "str" =>
        /\ SelectSeq(result[f].s, IsRetainedKind) = SelectSeq(frame[f].s, IsRetainedKind)
        /\ \A i \in 1..Len(result[f].s) : ~IsOtherPunctuation(result[f].s[i])

\* C25: whenever the segmenter found a description container with text in
\* it, by its class lookup or by a fallback selector, the description text
\* is there for the regex and the generative pass
C25_TextWhereverContainer ==
  /\ pc \in {"RegexPass", "GenerativePass", "Assemble"}
  /\ SegmenterFindsContainer(page.desc)
  /\ get_text(page.desc.root, <<NL>>) # <<>>
  => Truthy(frame.job_desc_text)

(***************************************************************************)
(* Properties of the batch on the thread pool.                             *)
(***************************************************************************)
\* what a run of the pipeline alone on document u returns
Alone(u) == extract_single_job(u, 1).v

\* C15: while the tasks of one batch run concurrently, no object they share
\* is written without a lock held, and every task returns what it would
\* return running alone
C15_WorkersStateless ==
  /\ unlocked = {}
  /\ \A w \in Tasks :
       w_pc[w] = "Finished" => w_outcome[w] = Ok(Alone(job_urls[w]))

\* C16: in a batch on the thread pool the failure of one document's
\* extraction leaves that document out of the returned list, every other
\* document's record is returned as it would be alone, and the batch call
\* does not raise
C16_FailureIsolated ==
  /\ batch_pc # "Raised"
  /\ batch_pc \in {"Gathered", "Done"} =>
       \A w \in Tasks : results[w] = Alone(job_urls[w])
  /\ batch_pc = "Done" =>
       scraped_jobs = SelectSeq([w \in Tasks |-> Alone(job_urls[w])], Truthy)

\* a finished batch of two documents: the extraction of the first failed
\* before it had a driver, the record of the second is the only one returned
C16_Witness ==
  /\ batch_pc = "Done"
  /\ Len(job_urls) = 2
  /\ ~job_urls[1].load_ok
  /\ w_driver[1] = NoDriver
  /\ results[1] = PyNone
  /\ results[2].t = "JobPosting"
  /\ scraped_jobs = <<results[2]>>

\* every task of a batch returns what the pipeline returns on its document
TasksAsAlone ==
  \A w \in Tasks : w_pc[w] = "Finished" => w_outcome[w] = Ok(Alone(job_urls[w]))
\* the sequential pipeline returns the same value
PipelineAsAlone ==
  pc = "Returned" => result = Alone(url)
\* the agents of the drivers depend on the order in which the tasks start
AgentsInUrlOrder ==
  \A w \in Tasks : w_pc[w] = "Finished" /\ w > 1 /\ w_pc[w - 1] = "Finished" =>
     w_driver[w].user_agent = NextAgent(w_driver[w - 1].user_agent)

(***************************************************************************)
(* Properties of the parse of a generative reply.                          *)
(***************************************************************************)
\* the first brace-delimited substring: from the first opening brace to the
\* closing brace that closes it
FirstBraced(toks) ==
  LET opens == {i \in 1..Len(toks) : toks[i].k = "lb"}
      first == CHOOSE i \in opens : \A m \in opens : i <= m
      Depth(j) == Cardinality({x \in first..j : toks[x].k = "lb"})
                    - Cardinality({x \in first..j : toks[x].k = "rb"})
      closes == {j \in first..Len(toks) : toks[j].k = "rb" /\ Depth(j) = 0}
  IN IF opens = {} \/ closes = {} THEN NoMatch
     ELSE Match(SubSeq(toks, first, CHOOSE j \in closes : \A m \in closes : j <= m))

\* the JSON objects embedded in a text, as the spans that parse to an object
ObjectSpans(toks) ==
  {sp \in (1..Len(toks)) \X (1..Len(toks)) :
     /\ sp[1] <= sp[2]
     /\ ~json_loads(SubSeq(toks, sp[1], sp[2])).raised
     /\ json_loads(SubSeq(toks, sp[1], sp[2])).v.t = "dict"}

\* C20: a reply is parsed directly; only if that fails, its first
\* brace-delimited substring is parsed; only if that fails or there is none,
\* the result is the all-default structure; a free text that embeds exactly
\* one valid JSON object yields the fields of that object
C20_ParseOrder ==
  parse_pc = "Done" =>
    LET direct == json_loads(reply_content)
        first == FirstBraced(reply_content)
        second == json_loads(first.g)
        spans == ObjectSpans(reply_content)
    IN /\ ~direct.raised => parsed_fields = direct.v
       /\ direct.raised /\ first.ok /\ ~second.raised => parsed_fields = second.v
       /\ direct.raised /\ (~first.ok \/ second.raised) =>
            /\ parsed_fields = PyDict(EmptyDict)
            /\ normalized_fields = get_default_fields
       /\ direct.raised /\ Cardinality(spans) = 1 =>
            \A sp \in spans :
              normalized_fields =
                ExceptException(normalize_llm_fields(
                  json_loads(SubSeq(reply_content, sp[1], sp[2])).v)).v

\* the order of the three attempts alone
ParseOrderAsCoded ==
  parse_pc = "Done" =>
    LET direct == json_loads(reply_content)
        m == BraceMatch(reply_content)
        second == json_loads(m.g)
    IN /\ ~direct.raised => parsed_fields = direct.v
       /\ direct.raised /\ m.ok /\ ~second.raised => parsed_fields = second.v
       /\ direct.raised /\ (~m.ok \/ second.raised) =>
            /\ parsed_fields = PyDict(EmptyDict)
            /\ normalized_fields = get_default_fields

\* whether v is a string or a one-element list of a "see above" placeholder
IsListPlaceholder(v) ==
  \/ v.t = "str"
  \/ v.t = "list" /\ Len(v.l) = 1 /\ StartsWithSeeAbove(v.l[1])

\* C21: after normalization of a generative reply, a list field whose
\* returned value is a string, or a one-element list holding a "see above"
\* placeholder, is an empty list
C21_ListPlaceholderCollapsed ==
  parse_pc = "Done" /\ parsed_fields.t = "dict" =>
    \A k \in ListKeySet \cap DOMAIN parsed_fields.d :
      IsListPlaceholder(parsed_fields.d[k]) =>
        /\ normalized_fields[k] = PyList(<<>>)
        /\ llama_fields[k] = PyList(<<>>)

\* the same for the normalization of run_glassdoor_scraper alone
LlamaPlaceholderCollapsed ==
  parse_pc = "Done" /\ parsed_fields.t = "dict" =>
    \A k \in ListKeySet \cap DOMAIN parsed_fields.d :
      IsListPlaceholder(parsed_fields.d[k]) => llama_fields[k] = PyList(<<>>)

(***************************************************************************)
(* Properties of the generative fallback of run_glassdoor_scraper.py.      *)
(***************************************************************************)
\* C22: with the groq package missing or no API key, extract_fields_with_llama
\* does what it does on a failure of the model call: it returns the
\* all-default structure and raises nothing, and the record is appended
C22_UnavailableAsFailure ==
  (~groq \/ ~api_key) =>
    /\ llama_pc # "Raised"
    /\ llama_pc \in {"Left", "Appended"} => llama_out = Ok(get_default_fields)

\* a failure of the model call itself gives the defaults and the record
RuntimeFailureGivesDefaults ==
  groq /\ api_key /\ llama_reply = ModelRaises /\ llama_pc \in {"Left", "Appended"} =>
    llama_out = Ok(get_default_fields)

(***************************************************************************)
(* Properties of safe_execute_with_retry.                                  *)
(***************************************************************************)
\* what the contract of the retry helper asks of a state
RetryContract ==
  /\ retry_hist.calls <= retries
  /\ retry_hist.returned_at # 0 =>
       /\ retry_hist.calls = retry_hist.returned_at
       /\ retry_pc = "Returned"
       /\ retry_out = Ok(PyInt(retry_hist.returned_at))
  /\ retry_pc # "Raised"
  /\ retry_pc = "Returned" /\ retry_hist.returned_at = 0 =>
       /\ retry_out = Ok(PyNone)
       /\ retry_hist.calls = retries
  /\ retries \notin retry_hist.slept_after

\* C27: safe_execute_with_retry calls func at most retries times, stops at
\* the first call that returns and returns its value, and after retries
\* raising calls returns None without raising and without a sleep after
\* the last attempt, with a logger and without one
C27_RetryContract == RetryContract

\* the same when a logger is passed
RetryContractWithLogger == logger => RetryContract

(***************************************************************************)
(* GlassdoorScraper._collect_job_urls (src/new_glassdoor.py 658-695).      *)
(* The results page is fixed at entry: the hrefs its job_links selectors   *)
(* find, the hrefs later clicks reveal (one per click), when a load_more   *)
(* control is displayed, and whether find_elements raises.                 *)
(***************************************************************************)
MaxNumJobs == 2

PageHrefs == {"job/1", "job/2", "job/3"}

ButtonModes == {"never", "while_more", "always"}

not_collect_vars == <<scrape_vars, lookup_vars, seg_vars, worker_vars, parse_vars, llama_vars, retry_vars, api_vars, browser_vars>>

InitCollect ==
  /\ PipelineIdle
  /\ LookupIdle
  /\ SegIdle
  /\ WorkersIdle
  /\ ParseIdle
  /\ LlamaIdle
  /\ RetryIdle
  /\ num_jobs \in 0..MaxNumJobs
  /\ page_links \in SUBSET PageHrefs
  /\ hidden \in SUBSET (PageHrefs \ page_links)
  /\ button \in ButtonModes
  /\ find_raises \in BOOLEAN
  /\ url_set = {}
  /\ found = FALSE
  /\ clicked = FALSE
  /\ collect_pc = "While"
  /\ collect_out = <<>>
  /\ ApiIdle
  /\ BrowsersIdle

\* a load_more selector finds a displayed button
ButtonDisplayed == button = "always" \/ (button = "while_more" /\ hidden # {})

\* the hrefs one pass over the job_links selectors adds: new hrefs in
\* element order until the set holds num_jobs of them
ScanAdds ==
  {add \in SUBSET (page_links \ url_set) :
     \/ add = page_links \ url_set /\ Cardinality(url_set \cup add) <= num_jobs
     \/ Cardinality(url_set \cup add) = num_jobs}

\* lines 662-678: the while test, the loop over selectors['job_links'], and
\* the break on "not found or len(job_urls) >= num_jobs"
CollectScan ==
  /\ collect_pc = "While"
  /\ IF Cardinality(url_set) >= num_jobs
       THEN /\ collect_pc' = "Return"
            /\ UNCHANGED <<url_set, found>>
       ELSE IF find_raises
         THEN /\ found' = FALSE
              /\ collect_pc' = "Return"
              /\ UNCHANGED url_set
         ELSE /\ \E add \in ScanAdds : url_set' = url_set \cup add
              /\ found' = TRUE
              /\ collect_pc' = IF Cardinality(url_set') >= num_jobs THEN "Return" ELSE "Click"
  /\ UNCHANGED <<num_jobs, page_links, hidden, button, find_raises, clicked, collect_out>>
  /\ UNCHANGED not_collect_vars

\* lines 680-693: the loop over selectors['load_more']; a displayed button
\* is clicked and the while loop goes round again, otherwise break
CollectClick ==
  /\ collect_pc = "Click"
  /\ IF ButtonDisplayed
       THEN /\ clicked' = TRUE
            /\ collect_pc' = "While"
            /\ IF hidden = {}
                 THEN UNCHANGED <<page_links, hidden>>
                 ELSE \E l \in hidden : /\ page_links' = page_links \cup {l}
                                        /\ hidden' = hidden \ {l}
       ELSE /\ clicked' = FALSE
            /\ collect_pc' = "Return"
            /\ UNCHANGED <<page_links, hidden>>
  /\ UNCHANGED <<num_jobs, button, find_raises, url_set, found, collect_out>>
  /\ UNCHANGED not_collect_vars

\* the lists list(job_urls) can be: every order of the set
ListsOf(S) ==
  {q \in [1..Cardinality(S) -> S] : \A i, j \in 1..Cardinality(S) : q[i] = q[j] => i = j}

\* line 695: return list(job_urls)[:num_jobs]
CollectReturn ==
  /\ collect_pc = "Return"
  /\ \E q \in ListsOf(url_set) :
       collect_out' = SubSeq(q, 1, IF Len(q) < num_jobs THEN Len(q) ELSE num_jobs)
  /\ collect_pc' = "Returned"
  /\ UNCHANGED <<num_jobs, page_links, hidden, button, find_raises, url_set, found, clicked>>
  /\ UNCHANGED not_collect_vars

NextCollect == CollectScan \/ CollectClick \/ CollectReturn

SpecCollect == InitCollect /\ [][NextCollect]_vars

\* the thread running _collect_job_urls keeps executing: each enabled step
\* of the loop is eventually taken
SpecCollectFair == SpecCollect /\ WF_vars(NextCollect)

\* C28: _collect_job_urls always terminates and returns at most num_jobs
\* distinct URLs, for every behaviour of the results page, including a page
\* whose load-more control stays displayed while no new job link appears.
C28_CollectTerminates ==
  /\ <>(collect_pc = "Returned")
  /\ [](collect_pc = "Returned" =>
          /\ Len(collect_out) <= num_jobs
          /\ \A i, j \in 1..Len(collect_out) : collect_out[i] = collect_out[j] => i = j)

\* what does hold: a call that returns gives at most num_jobs distinct URLs
CollectReturnsDistinct ==
  collect_pc = "Returned" =>
    /\ Len(collect_out) <= num_jobs
    /\ \A i, j \in 1..Len(collect_out) : collect_out[i] = collect_out[j] => i = j

\* and the call returns whenever the page stops offering a button or holds
\* enough links
CollectTerminatesUnlessStuck ==
  (button # "always" \/ Cardinality(page_links \cup hidden) >= num_jobs) ~> (collect_pc = "Returned")

(***************************************************************************)
(* The API endpoints that report a scraper failure:                        *)
(* scrape_simplyhired_api (src/new_simplyhired.py 735-757),                *)
(* scrape_foundit_api (src/foundit_scraper.py 454-470) and run_scraper     *)
(* (src/main.py 81-90).  Each wraps its whole body, the raise of the       *)
(* selected HTTPException included, in try / except Exception.             *)
(***************************************************************************)
MaxRows == 2

Endpoints == {"scrape_simplyhired_api", "scrape_foundit_api", "run_scraper"}

ErrorDetails == {"missing", "No job cards found", "Search failed"}

\* what the scraper call does: raise, or return a result whose 'success'
\* and 'error' keys are present or not and which holds some rows
ScraperResults ==
  [raised : BOOLEAN, success : {"missing", "True", "False"}, error : ErrorDetails, rows : 0..MaxRows]

not_api_vars == <<scrape_vars, lookup_vars, seg_vars, worker_vars, parse_vars, llama_vars, retry_vars, collect_vars, browser_vars>>

InitApi ==
  /\ PipelineIdle
  /\ LookupIdle
  /\ SegIdle
  /\ WorkersIdle
  /\ ParseIdle
  /\ LlamaIdle
  /\ RetryIdle
  /\ CollectIdle
  /\ api \in Endpoints
  /\ scraper_result \in ScraperResults
  /\ api_exc = NoExc
  /\ api_pc = "Try"
  /\ api_response = NoResponse
  /\ BrowsersIdle

HTTPException(status_code, detail) ==
  [type |-> "HTTPException", status_code |-> status_code, detail |-> detail]

\* the condition under which the endpoint treats the result as a failure
ReportsFailure(e, r) ==
  CASE e = "scrape_simplyhired_api" -> r.success = "False" \/ r.error # "missing"
    [] e = "scrape_foundit_api" -> r.error # "missing"
    [] e = "run_scraper" -> r.rows = 0

\* the HTTPException the endpoint raises for a reported failure
SelectedException(e, r) ==
  CASE e = "scrape_simplyhired_api" ->
         HTTPException(400, IF r.error = "missing" THEN <<"Unknown error">> ELSE <<r.error>>)
    [] e = "scrape_foundit_api" -> HTTPException(400, <<r.error>>)
    [] e = "run_scraper" -> HTTPException(404, <<"No jobs found.">>)

\* str(e): an HTTPException prints its status code and its detail
StatusText(n) == CASE n = 400 -> "400" [] n = 404 -> "404" [] n = 500 -> "500"

StrOfException(e) ==
  IF e.type = "HTTPException" THEN <<StatusText(e.status_code), ": ">> \o e.detail ELSE e.detail

\* the try body: the scraper call, the failure test and its raise, or the
\* return of the result
ApiTry ==
  /\ api_pc = "Try"
  /\ IF scraper_result.raised
       THEN /\ api_exc' = [type |-> "Exception", status_code |-> 0, detail |-> <<"scraper raised">>]
            /\ api_pc' = "Except"
            /\ UNCHANGED api_response
       ELSE IF ReportsFailure(api, scraper_result)
         THEN /\ api_exc' = SelectedException(api, scraper_result)
              /\ api_pc' = "Except"
              /\ UNCHANGED api_response
         ELSE /\ api_response' = [status |-> 200, detail |-> <<>>]
              /\ api_pc' = "Responded"
              /\ UNCHANGED api_exc
  /\ UNCHANGED <<api, scraper_result>>
  /\ UNCHANGED not_api_vars

\* except Exception as e: raise HTTPException(status_code=500, detail=str(e));
\* HTTPException is a subclass of Exception, so the handler also catches the
\* exception the try body selected
ApiExcept ==
  /\ api_pc = "Except"
  /\ api_response' = [status |-> 500, detail |-> StrOfException(api_exc)]
  /\ api_pc' = "Responded"
  /\ UNCHANGED <<api, scraper_result, api_exc>>
  /\ UNCHANGED not_api_vars

NextApi == ApiTry \/ ApiExcept

SpecApi == InitApi /\ [][NextApi]_vars

\* C29: when a scraper reports a failure, the status the endpoint selects
\* (400 with the scraper's detail for SimplyHired and Foundit, 404 "No jobs
\* found." for run_scraper on an empty table) is the status delivered to the
\* client; 500 is produced only for unexpected exceptions.
C29_SelectedStatusDelivered ==
  api_pc = "Responded" =>
    /\ api_exc.type = "HTTPException" =>
         /\ api_response.status = api_exc.status_code
         /\ api_response.detail = api_exc.detail
    /\ api_response.status = 500 => scraper_result.raised

\* what the code does: every reported failure is delivered as 500
ReportedFailureDeliveredAs500 ==
  api_pc = "Responded" /\ api_exc.type = "HTTPException" =>
    /\ api_response.status = 500
    /\ api_response.detail = <<StatusText(api_exc.status_code), ": ">> \o api_exc.detail

(***************************************************************************)
(* Browser lifetime in GlassdoorScraper.scrape_jobs (src/new_glassdoor.py  *)
(* 584-621), _extract_single_job (709-807) and                             *)
(* ChromeDriverManager.create_driver (267-305).  started and quits record  *)
(* the browser processes themselves, sj_driver and doc_driver the local    *)
(* variables through which the callers can reach them.                     *)
(***************************************************************************)
\* create_driver: webdriver.Chrome raises; Chrome starts and a later set-up
\* call (execute_script, set_page_load_timeout, implicitly_wait) raises; or
\* the driver is returned.  The handler of lines 303-305 logs and re-raises.
CreateOutcomes == {"chrome_raises", "setup_raises", "returned"}

not_browser_vars == <<scrape_vars, lookup_vars, seg_vars, worker_vars, parse_vars, llama_vars, retry_vars, collect_vars, api_vars>>

InitBrowsers ==
  /\ PipelineIdle
  /\ LookupIdle
  /\ SegIdle
  /\ WorkersIdle
  /\ ParseIdle
  /\ LlamaIdle
  /\ RetryIdle
  /\ CollectIdle
  /\ ApiIdle
  /\ sj_pc = "Create"
  /\ sj_driver = FALSE
  /\ sj_raising = FALSE
  /\ doc_count = 0
  /\ doc_pc = [d \in Docs |-> "Idle"]
  /\ doc_driver = [d \in Docs |-> FALSE]
  /\ started = {}
  /\ quits = [o \in Owners |-> 0]

\* line 585: driver = self.driver_manager.create_driver(), outside the inner try
ScrapeCreateDriver ==
  /\ sj_pc = "Create"
  /\ \E o \in CreateOutcomes :
       /\ started' = IF o = "chrome_raises" THEN started ELSE started \cup {0}
       /\ sj_driver' = (o = "returned")
       /\ sj_raising' = (o # "returned")
       /\ sj_pc' = IF o = "returned" THEN "Search" ELSE "Except"
  /\ UNCHANGED <<doc_count, doc_pc, doc_driver, quits>>
  /\ UNCHANGED not_browser_vars

\* lines 589-593: _perform_search raises, or _collect_job_urls returns the
\* URLs that _extract_jobs_concurrent submits to the executor
ScrapeSearch ==
  /\ sj_pc = "Search"
  /\ \/ /\ sj_raising' = TRUE
        /\ sj_pc' = "Finally"
        /\ UNCHANGED <<doc_count, doc_pc>>
     \/ \E n \in 0..MaxDocs :
          /\ doc_count' = n
          /\ doc_pc' = [d \in Docs |-> IF d <= n THEN "Create" ELSE "Idle"]
          /\ sj_pc' = "Extract"
          /\ UNCHANGED sj_raising
  /\ UNCHANGED <<sj_driver, doc_driver, started, quits>>
  /\ UNCHANGED not_browser_vars

\* lines 711-713: driver = None; try: driver = create_driver()
DocCreateDriver(d) ==
  /\ doc_pc[d] = "Create"
  /\ \E o \in CreateOutcomes :
       /\ started' = IF o = "chrome_raises" THEN started ELSE started \cup {d}
       /\ doc_driver' = [doc_driver EXCEPT ![d] = (o = "returned")]
       /\ doc_pc' = [doc_pc EXCEPT ![d] = IF o = "returned" THEN "Body" ELSE "Finally"]
  /\ UNCHANGED <<sj_pc, sj_driver, sj_raising, doc_count, quits>>
  /\ UNCHANGED not_browser_vars

\* lines 714-804: the rest of the try body returns the posting or raises;
\* the handler of lines 802-804 returns None
DocBody(d) ==
  /\ doc_pc[d] = "Body"
  /\ doc_pc' = [doc_pc EXCEPT ![d] = "Finally"]
  /\ UNCHANGED <<sj_pc, sj_driver, sj_raising, doc_count, doc_driver, started, quits>>
  /\ UNCHANGED not_browser_vars

\* lines 805-807: finally: if driver: driver.quit()
DocFinally(d) ==
  /\ doc_pc[d] = "Finally"
  /\ quits' = [quits EXCEPT ![d] = IF doc_driver[d] THEN @ + 1 ELSE @]
  /\ doc_pc' = [doc_pc EXCEPT ![d] = "Returned"]
  /\ UNCHANGED <<sj_pc, sj_driver, sj_raising, doc_count, doc_driver, started>>
  /\ UNCHANGED not_browser_vars

\* lines 596-612: asyncio.gather has every task's value; build the result
ScrapeGather ==
  /\ sj_pc = "Extract"
  /\ \A d \in Docs : d <= doc_count => doc_pc[d] = "Returned"
  /\ sj_pc' = "Finally"
  /\ UNCHANGED <<sj_driver, sj_raising, doc_count, doc_pc, doc_driver, started, quits>>
  /\ UNCHANGED not_browser_vars

\* lines 614-615: finally: driver.quit()
ScrapeFinally ==
  /\ sj_pc = "Finally"
  /\ quits' = [quits EXCEPT ![0] = @ + 1]
  /\ sj_pc' = IF sj_raising THEN "Except" ELSE "Returned"
  /\ UNCHANGED <<sj_driver, sj_raising, doc_count, doc_pc, doc_driver, started>>
  /\ UNCHANGED not_browser_vars

\* lines 617-621: except Exception: log, count, raise
ScrapeExcept ==
  /\ sj_pc = "Except"
  /\ sj_pc' = "Raised"
  /\ UNCHANGED <<sj_driver, sj_raising, doc_count, doc_pc, doc_driver, started, quits>>
  /\ UNCHANGED not_browser_vars

NextBrowsers ==
  \/ ScrapeCreateDriver
  \/ ScrapeSearch
  \/ \E d \in Docs : DocCreateDriver(d) \/ DocBody(d) \/ DocFinally(d)
  \/ ScrapeGather
  \/ ScrapeFinally
  \/ ScrapeExcept

SpecBrowsers == InitBrowsers /\ [][NextBrowsers]_vars

\* the call that created browser o has returned or raised
CreatorDone(o) ==
  IF o = 0 THEN sj_pc \in {"Returned", "Raised"} ELSE doc_pc[o] = "Returned"

\* C30: every browser created during scrape_jobs (the search driver and each
\* per-document driver) has been quit exactly once when the creating call
\* returns, on the success path and on every exception path; no driver
\* outlives the call that created it.
C30_EveryDriverQuitOnce ==
  \A o \in started : /\ quits[o] <= 1
                     /\ CreatorDone(o) => quits[o] = 1

\* what does hold: a driver that create_driver returned to its caller is
\* quit exactly once before the caller is done, and nothing is quit twice
ReturnedDriverQuitOnce ==
  /\ \A o \in Owners : quits[o] <= 1
  /\ sj_driver /\ CreatorDone(0) => quits[0] = 1
  /\ \A d \in Docs : doc_driver[d] /\ CreatorDone(d) => quits[d] = 1

=============================================================================
